---- MODULE Spec2Model ----
(***************************************************************************)
(* Model of the data-model dashboard's route handlers: the database import *)
(* (app/api/storage-models/import), the four create handlers (view, form,  *)
(* operation, domain), the list and dashboard GET handlers, and the         *)
(* relational serializer they all end in.                                  *)
(*                                                                         *)
(* Spec is the system of concurrent requests, and LiveSpec is Spec with    *)
(* every handler running on once its awaited call has returned.            *)
(* FieldsSpec, SerializerSpec, GroupingSpec, PortSpec and UnrolledSpec     *)
(* apply one function of the code to each of a set of inputs.              *)
(* SnapshotSpec is one dashboard read whose queries are answered one by    *)
(* one while creates complete, and RefreshSpec is the dashboard page       *)
(* (components/dashboard/dashboard-root.tsx) with its refreshes.           *)
(*                                                                         *)
(* Every handler is an async function; one action models the code between  *)
(* two awaits, so that concurrent requests interleave exactly at the       *)
(* awaits.  External calls (the target database, the store) return a       *)
(* result or throw, chosen nondeterministically.                           *)
(***************************************************************************)
EXTENDS Integers, Sequences, FiniteSets, TLC

VARIABLES
    serializerModule, \* which of the two serializer sources "@/lib/serializers" resolves to
    store,            \* the relational store: one sequence of rows per table, in insertion order
    nextId,           \* the store's id / creation-time counter
    connections,      \* every connection ever opened to a target database
    catalog,          \* what the target database's catalog holds, once it has been read
    req,              \* per request: the handler's position and local variables
    probe,            \* a pure function of the code applied to one input, outside any request
    ui                \* the dashboard page of one browser: its React state and its fetches

vars == <<serializerModule, store, nextId, connections, catalog, req, probe, ui>>

---------------------------------------------------------------------------
(* Bounds *)

MaxTables == 2        \* tables the target database's catalog may list
MaxColumnRows == 2    \* rows the column catalog query may return
MaxIds == 2           \* length of an id array submitted to create-domain
MaxFields == 2        \* entries of a schema document's fields array
MaxGroupedRows == 4   \* column rows handed to the grouping loop on its own
MaxPortChars == 3     \* characters of a port submitted as a string
MaxUnrolling == 3     \* how far a cycle of loaded relations is followed in a serializer input
MaxWrites == 2        \* creates that complete while one dashboard read is being served
MaxRefreshes == 3     \* dashboard fetches one page starts

Reqs == {"r1", "r2"}  \* concurrently served requests

---------------------------------------------------------------------------
(* Generic helpers *)

Has(obj, k) == k \in DOMAIN obj

Map(Op(_), s) == [i \in 1..Len(s) |-> Op(s[i])]

Range(s) == {s[i] : i \in 1..Len(s)}

RECURSIVE Flatten(_)
Flatten(ss) == IF ss = <<>> THEN <<>> ELSE Head(ss) \o Flatten(Tail(ss))

\* JSON null / SQL NULL in a string-valued position
Null == "<null>"

\* Strings whose characters matter are sequences of one-character strings.
IsSubstring(p, s) ==
    \E i \in 0..(Len(s) - Len(p)) : SubSeq(s, i + 1, i + Len(p)) = p

\* Array.prototype.join: the items with the separator between them
RECURSIVE Join(_, _)
Join(items, sep) ==
    IF items = <<>> THEN <<>>
    ELSE IF Len(items) = 1 THEN <<items[1]>>
    ELSE <<items[1], sep>> \o Join(Tail(items), sep)

---------------------------------------------------------------------------
(* zod: the messages of the issues of a z.string().min(1, msg) key.  A      *)
(* missing key is reported as "Required".                                  *)

StringMin1(obj, k, msg) ==
    IF ~Has(obj, k) THEN <<"Required">>
    ELSE IF obj[k] = "" THEN <<msg>>
    ELSE <<>>

CharsMin1(obj, k, msg) ==
    IF ~Has(obj, k) THEN <<"Required">>
    ELSE IF Len(obj[k]) = 0 THEN <<msg>>
    ELSE <<>>

\* error.errors.map((err) => err.message).join("；")
ZodErrorResponse(issues) == [status |-> 400, kind |-> "text", body |-> Join(issues, ";")]

\* catch (error): error instanceof Error ? `${prefix}${error.message}` : prefix
ErrorResponse(prefix, message) ==
    [status |-> 500, kind |-> "text", body |-> <<prefix, message>>]

NoResponse == [status |-> 0, kind |-> "none", body |-> <<>>]

---------------------------------------------------------------------------
(* Request bodies.  request.json() throws on a body that is not JSON. *)

Malformed == [wellFormed |-> FALSE]
WellFormed(payload) == [wellFormed |-> TRUE, json |-> payload]

\* await request.json(): the SyntaxError's message
JsonSyntaxError == "Unexpected token in JSON"

---------------------------------------------------------------------------
(* Import: connectionSchema and importSchema *)

DefaultPort == 3306

DigitChars == <<"0", "1", "2", "3", "4", "5", "6", "7", "8", "9">>

DigitValue(ch) == (CHOOSE i \in 1..10 : DigitChars[i] = ch) - 1

IsDigitString(s) == \A i \in 1..Len(s) : s[i] \in Range(DigitChars)

RECURSIVE DecimalValue(_)
DecimalValue(s) ==
    IF s = <<>> THEN 0
    ELSE 10 * DecimalValue(SubSeq(s, 1, Len(s) - 1)) + DigitValue(s[Len(s)])

RECURSIVE DecimalString(_)
DecimalString(n) ==
    IF n < 10 THEN <<DigitChars[n + 1]>>
    ELSE DecimalString(n \div 10) \o <<DigitChars[(n % 10) + 1]>>

HexChars == DigitChars \o <<"a", "b", "c", "d", "e", "f">>
HexCharsUpper == DigitChars \o <<"A", "B", "C", "D", "E", "F">>

IsHexDigit(ch) == ch \in Range(HexChars) \cup Range(HexCharsUpper)

HexDigitValue(ch) ==
    (CHOOSE i \in 1..16 : HexChars[i] = ch \/ HexCharsUpper[i] = ch) - 1

RECURSIVE HexValue(_)
HexValue(s) ==
    IF s = <<>> THEN 0
    ELSE 16 * HexValue(SubSeq(s, 1, Len(s) - 1)) + HexDigitValue(s[Len(s)])

\* 0x or 0X followed by at least one hex digit
IsHexLiteral(s) ==
    /\ Len(s) >= 3 /\ s[1] = "0" /\ s[2] \in {"x", "X"}
    /\ \A i \in 3..Len(s) : IsHexDigit(s[i])

\* leading and trailing white space is skipped by Number(string)
RECURSIVE TrimSpaces(_)
TrimSpaces(s) ==
    IF s = <<>> THEN s
    ELSE IF Head(s) = " " THEN TrimSpaces(Tail(s))
    ELSE IF s[Len(s)] = " " THEN TrimSpaces(SubSeq(s, 1, Len(s) - 1))
    ELSE s

\* a JS number: NaN, an infinity (val is its sign) or the finite value val
NaN == [nan |-> TRUE, inf |-> FALSE, val |-> 0]
Infinite(sign) == [nan |-> FALSE, inf |-> TRUE, val |-> sign]
Finite(n) == [nan |-> FALSE, inf |-> FALSE, val |-> n]

InfinityChars == <<"I", "n", "f", "i", "n", "i", "t", "y">>

\* Number(string): the trimmed string is empty (0), a hex literal, or an
\* optionally signed "Infinity" or decimal digit string; anything else is NaN.
\* (The strings of the model have no fraction, exponent, 0b or 0o prefix.)
NumberOfString(s) ==
    LET t == TrimSpaces(s)
    IN  IF t = <<>> THEN Finite(0)
        ELSE IF IsHexLiteral(t) THEN Finite(HexValue(SubSeq(t, 3, Len(t))))
        ELSE LET signed == t[1] \in {"+", "-"}
                 sign == IF t[1] = "-" THEN -1 ELSE 1
                 body == IF signed THEN Tail(t) ELSE t
             IN  IF body = InfinityChars THEN Infinite(sign)
                 ELSE IF body # <<>> /\ IsDigitString(body)
                      THEN Finite(sign * DecimalValue(body))
                 ELSE NaN

\* A port arrives as a JSON number [num |-> n], a JSON number too large for a
\* double [inf |-> sign], or a JSON string [str |-> chars].
\* Number(x): a number is itself; a string is converted.
NumberOf(v) ==
    IF Has(v, "num") THEN Finite(v.num)
    ELSE IF Has(v, "inf") THEN Infinite(v.inf)
    ELSE NumberOfString(v.str)

\* Number.isFinite
IsFinite(number) == ~number.nan /\ ~number.inf

\* (a transform that lets port 0 through)
TransformConnectionFromZero(data) ==
    LET portValue == IF Has(data, "port") THEN NumberOf(data.port) ELSE Finite(DefaultPort)
        port == IF IsFinite(portValue) /\ portValue.val >= 0 THEN portValue.val
                ELSE DefaultPort
    IN  [host |-> data.host,
         user |-> data.user,
         database |-> data.database,
         password |-> IF Has(data, "password") THEN data.password ELSE <<>>,
         port |-> port]

\* connectionSchema's .transform
TransformConnection(data) ==
    LET portValue == IF Has(data, "port") THEN NumberOf(data.port) ELSE Finite(DefaultPort)
        port == IF IsFinite(portValue) /\ portValue.val > 0 THEN portValue.val
                ELSE DefaultPort
    IN  [host |-> data.host,
         user |-> data.user,
         database |-> data.database,
         password |-> IF Has(data, "password") THEN data.password ELSE <<>>,
         port |-> port]

connectionSchemaIssues(c) ==
    CharsMin1(c, "host", "host must not be empty")
    \o CharsMin1(c, "user", "user must not be empty")
    \o CharsMin1(c, "database", "database must not be empty")

importSchemaIssues(p) ==
    StringMin1(p, "name", "model name must not be empty")
    \o (IF Has(p, "connection") THEN connectionSchemaIssues(p.connection)
        ELSE <<"Required">>)

\* importSchema.parse(payload) when there are no issues
\* (an absent description is kept as the empty string: the handler only uses
\* `description || undefined`)
importSchemaParse(p) ==
    [name |-> p.name,
     description |-> IF Has(p, "description") THEN p.description ELSE "",
     connection |-> TransformConnection(p.connection)]

\* encodeURIComponent on the characters the model's strings use: the reserved
\* characters are percent-encoded, the others pass through.
EncodeChar(ch) ==
    IF ch = "@" THEN <<"%", "4", "0">>
    ELSE IF ch = ":" THEN <<"%", "3", "A">>
    ELSE IF ch = "/" THEN <<"%", "2", "F">>
    ELSE <<ch>>

encodeURIComponent(s) == Flatten(Map(EncodeChar, s))

\* (a descriptor that carries the credentials, as a connection URL usually does)
ConnectionDescriptorWithPassword(conn) ==
    <<"m", "y", "s", "q", "l", ":", "/", "/">> \o encodeURIComponent(conn.user)
    \o <<":">> \o conn.password
    \o <<"@">> \o conn.host \o <<":">> \o DecimalString(conn.port)
    \o <<"/">> \o conn.database

\* `mysql://${encodeURIComponent(conn.user)}@${conn.host}:${conn.port}/${conn.database}`
ConnectionDescriptor(conn) ==
    <<"m", "y", "s", "q", "l", ":", "/", "/">> \o encodeURIComponent(conn.user)
    \o <<"@">> \o conn.host \o <<":">> \o DecimalString(conn.port)
    \o <<"/">> \o conn.database

ImportPayloads ==
    { [name |-> "shop", description |-> "demo",
       connection |-> [host |-> <<"h">>, user |-> <<"r">>, database |-> <<"d">>,
                       password |-> <<"r">>, port |-> [num |-> 3307]]],
      [name |-> "crm",
       connection |-> [host |-> <<"h">>, user |-> <<"a", "@">>, database |-> <<"d">>,
                       password |-> <<"p", "w">>, port |-> [str |-> <<"0">>]]],
      [name |-> "",
       connection |-> [host |-> <<>>, user |-> <<"r">>, database |-> <<"d">>]],
      [name |-> "shop"] }

ImportBodies == {Malformed} \cup {WellFormed(p) : p \in ImportPayloads}

---------------------------------------------------------------------------
(* The target database's catalog, as the two INFORMATION_SCHEMA queries    *)
(* return it.  Table rows come ORDER BY TABLE_NAME, column rows ORDER BY   *)
(* TABLE_NAME, ORDINAL_POSITION; a (table, column) pair occurs once.       *)

CatalogTableNames == <<"orders", "users", "visits", "zones">>   \* in name order

TargetTables == 1..MaxTables

TableRow(i) ==
    [tableName |-> CatalogTableNames[i],
     tableComment |-> IF i = 1 THEN "" ELSE "business table"]

ColumnNames == {"id", "name"}

ColumnRow(i, c) ==
    [tableName |-> CatalogTableNames[i],
     columnName |-> c,
     columnType |-> IF c = "id" THEN "int" ELSE "varchar(64)",
     columnKey |-> IF c = "id" THEN "PRI" ELSE "",
     isNullable |-> IF c = "id" THEN "NO" ELSE "YES",
     columnDefault |-> Null,
     columnComment |-> IF c = "id" THEN "" ELSE "display name"]

\* the sequence listing the members of a set of table indexes in increasing order
RECURSIVE Ascending(_)
Ascending(S) ==
    IF S = {} THEN <<>>
    ELSE LET m == CHOOSE x \in S : \A y \in S : x <= y
         IN  <<m>> \o Ascending(S \ {m})

TableResults == { Map(TableRow, Ascending(S)) : S \in SUBSET TargetTables }

\* the first table has two columns, the others one
ColumnKeys == {k \in TargetTables \X ColumnNames : k[1] = 1 \/ k[2] = "id"}

ColumnKeySeqs ==
    { s \in UNION { [1..n -> ColumnKeys] : n \in 0..MaxColumnRows } :
        /\ \A i, j \in 1..Len(s) : i < j => s[i][1] <= s[j][1]
        /\ \A i, j \in 1..Len(s) : i # j => s[i] # s[j] }

ColumnRowOfKey(k) == ColumnRow(k[1], k[2])

ColumnResults == { Map(ColumnRowOfKey, s) : s \in ColumnKeySeqs }

\* a driver error's message
DriverError == "driver error"

---------------------------------------------------------------------------
(* Import: grouping the column rows and building the tables *)

\* (a column schema named after the column's table)
ColumnSchemaNamedAfterTable(column) ==
    [name |-> column.tableName,
     type |-> column.columnType,
     key |-> column.columnKey,
     nullable |-> (column.isNullable = "YES"),
     default |-> column.columnDefault,
     comment |-> column.columnComment]

ColumnSchemaOf(column) ==
    [name |-> column.columnName,
     type |-> column.columnType,
     key |-> column.columnKey,
     nullable |-> (column.isNullable = "YES"),
     default |-> column.columnDefault,
     comment |-> column.columnComment]

\* columnsByTable is a JS Map: entries [key, list] in insertion order
MapHas(map, key) == \E i \in 1..Len(map) : map[i].key = key

MapGet(map, key) == map[CHOOSE i \in 1..Len(map) : map[i].key = key].list

MapSet(map, key, list) ==
    IF MapHas(map, key)
    THEN [i \in 1..Len(map) |-> IF map[i].key = key THEN [key |-> key, list |-> list] ELSE map[i]]
    ELSE Append(map, [key |-> key, list |-> list])

\* (a grouping that puts each column in front of its table's list)
RECURSIVE columnsByTableNewestFirst(_, _)
columnsByTableNewestFirst(columnRows, map) ==
    IF columnRows = <<>> THEN map
    ELSE LET column == Head(columnRows)
             list == IF MapHas(map, column.tableName)
                     THEN MapGet(map, column.tableName) ELSE <<>>
         IN  columnsByTableNewestFirst(Tail(columnRows),
                 MapSet(map, column.tableName, <<ColumnSchemaOf(column)>> \o list))

\* the for loop over columnRows: get(tableName) ?? [], push, set
RECURSIVE columnsByTable(_, _)
columnsByTable(columnRows, map) ==
    IF columnRows = <<>> THEN map
    ELSE LET column == Head(columnRows)
             list == IF MapHas(map, column.tableName)
                     THEN MapGet(map, column.tableName) ELSE <<>>
         IN  columnsByTable(Tail(columnRows),
                 MapSet(map, column.tableName, Append(list, ColumnSchemaOf(column))))

\* (a table list built from the grouped columns: tables without columns are lost)
BuildTablesFromColumns(tableRows, columnRows) ==
    LET grouped == columnsByTable(columnRows, <<>>)
        listed(table) == MapHas(grouped, table.tableName)
        one(table) ==
            [name |-> table.tableName,
             description |-> IF table.tableComment = "" THEN Null ELSE table.tableComment,
             columns |-> MapGet(grouped, table.tableName)]
    IN  Map(one, SelectSeq(tableRows, listed))

\* tableRows.map((table) => ({name, description: tableComment || null, columns}))
BuildTables(tableRows, columnRows) ==
    LET grouped == columnsByTable(columnRows, <<>>)
        one(table) ==
            [name |-> table.tableName,
             description |-> IF table.tableComment = "" THEN Null ELSE table.tableComment,
             columns |-> IF MapHas(grouped, table.tableName)
                         THEN MapGet(grouped, table.tableName) ELSE <<>>]
    IN  Map(one, tableRows)

---------------------------------------------------------------------------
(* The store.  Rows are records; a table is the sequence of its rows in    *)
(* insertion order.  Ids are generated by the store.                       *)

GeneratedIds == <<"c1", "c2", "c3", "c4", "c5", "c6", "c7", "c8", "c9", "c10", "c11", "c12">>

NewId(n) == GeneratedIds[n]

Ids(rows) == {rows[i].id : i \in 1..Len(rows)}

\* findUnique / a to-one relation: the row with this id, as a list of 0 or 1 rows
FindById(rows, id) == LET hit(row) == row.id = id IN SelectSeq(rows, hit)

\* a store error's message
StoreError == "store error"

---------------------------------------------------------------------------
(* Prisma includes: the relation graph loaded with a row *)

\* forms: { include: { operations: true } }
LoadFormOperations(s, form) ==
    LET mine(o) == o.formModelId = form.id
    IN  form @@ [operations |-> SelectSeq(s.operationModels, mine)]

\* include: { forms: { include: { operations: true } }, views: true }
LoadTable(s, table) ==
    LET form(f) == f.storageTableId = table.id
        view(v) == v.storageTableId = table.id
        load(f) == LoadFormOperations(s, f)
    IN  table @@ [forms |-> Map(load, SelectSeq(s.formModels, form)),
                  views |-> SelectSeq(s.viewModels, view)]

\* include: { tables: {...}, operations: true, views: true }
LoadStorageModel(s, model) ==
    LET table(t) == t.storageModelId = model.id
        operation(o) == o.storageModelId = model.id
        view(v) == v.storageModelId = model.id
        load(t) == LoadTable(s, t)
    IN  model @@ [tables |-> Map(load, SelectSeq(s.storageTables, table)),
                  operations |-> SelectSeq(s.operationModels, operation),
                  views |-> SelectSeq(s.viewModels, view)]

\* include: { storageModel: true, storageTable: true }
LoadView(s, view) ==
    view @@ [storageModel |-> FindById(s.storageModels, view.storageModelId),
             storageTable |-> FindById(s.storageTables, view.storageTableId)]

\* include: { storageTable: true, operations: true }
LoadForm(s, form) ==
    LoadFormOperations(s, form)
    @@ [storageTable |-> FindById(s.storageTables, form.storageTableId)]

\* include: { formModel: true, storageModel: true }
LoadOperation(s, operation) ==
    operation @@ [formModel |-> FindById(s.formModels, operation.formModelId),
                  storageModel |-> FindById(s.storageModels, operation.storageModelId)]

\* domainModelInclude: the join rows of the domain, each with its target loaded
LoadDomain(s, domain) ==
    LET mine(j) == j.domainModelId = domain.id
        table(j) == [storageTable |-> LoadTable(s, FindById(s.storageTables, j.targetId)[1])]
        view(j) == [viewModel |-> LoadView(s, FindById(s.viewModels, j.targetId)[1])]
        form(j) == [formModel |-> LoadForm(s, FindById(s.formModels, j.targetId)[1])]
        operation(j) ==
            [operationModel |-> LoadOperation(s, FindById(s.operationModels, j.targetId)[1])]
    IN  domain @@ [storageTables |-> Map(table, SelectSeq(s.domainStorageTables, mine)),
                   viewModels |-> Map(view, SelectSeq(s.domainViewModels, mine)),
                   formModels |-> Map(form, SelectSeq(s.domainFormModels, mine)),
                   operationModels |-> Map(operation, SelectSeq(s.domainOperationModels, mine))]

---------------------------------------------------------------------------
(* The serializer *)

\* Date.prototype.toISOString
toISOString(t) == <<"iso", t>>

\* a key whose value is undefined is left out of the JSON document
Optional(k, present, v) == IF present THEN [x \in {k} |-> v] ELSE [x \in {} |-> v]

\* a to-one relation is rendered when the key is in the loaded row and not null
Related(model, k) == Has(model, k) /\ Len(model[k]) > 0

\* (a back-reference that keeps the lists loaded with the table)
ShallowTableKeepingLists(table) ==
    [id |-> table.id, name |-> table.name, description |-> table.description,
     schema |-> table.schema, storageModelId |-> table.storageModelId,
     createdAt |-> toISOString(table.createdAt),
     updatedAt |-> toISOString(table.updatedAt),
     forms |-> IF Has(table, "forms") THEN table.forms ELSE <<>>,
     views |-> IF Has(table, "views") THEN table.views ELSE <<>>]

ShallowTable(table) ==
    [id |-> table.id, name |-> table.name, description |-> table.description,
     schema |-> table.schema, storageModelId |-> table.storageModelId,
     createdAt |-> toISOString(table.createdAt),
     updatedAt |-> toISOString(table.updatedAt),
     forms |-> <<>>, views |-> <<>>]

toOperationModel(model, includeForm) ==
    [id |-> model.id, name |-> model.name, description |-> model.description,
     type |-> model.type, endpoint |-> model.endpoint, method |-> model.method,
     requestSchema |-> model.requestSchema, responseSchema |-> model.responseSchema,
     createdAt |-> toISOString(model.createdAt),
     updatedAt |-> toISOString(model.updatedAt)]
    @@ Optional("storageModelId", model.storageModelId # Null, model.storageModelId)
    @@ Optional("formModelId", model.formModelId # Null, model.formModelId)
    @@ (IF includeForm /\ Related(model, "formModel")
        THEN LET form == model.formModel[1]
             IN  [formModel |->
                    [id |-> form.id, name |-> form.name, description |-> form.description,
                     schema |-> form.schema, storageTableId |-> form.storageTableId,
                     createdAt |-> toISOString(form.createdAt),
                     updatedAt |-> toISOString(form.updatedAt)]]
        ELSE [x \in {} |-> x])

\* A to-many relation that is null: the row lists the key under `nulls`.
IsNullList(model, k) == Has(model, "nulls") /\ k \in model.nulls

\* model.operations.map(...) is reached whenever the key "operations" is in the
\* model: it throws a TypeError when the value is null
toFormModelThrows(model, includeOperations) ==
    includeOperations /\ Has(model, "operations") /\ IsNullList(model, "operations")

toFormModel(model, includeOperations) ==
    LET shallow(operation) == toOperationModel(operation, FALSE)
    IN  [id |-> model.id, name |-> model.name, description |-> model.description,
         schema |-> model.schema, storageTableId |-> model.storageTableId,
         createdAt |-> toISOString(model.createdAt),
         updatedAt |-> toISOString(model.updatedAt)]
        @@ (IF includeOperations /\ Has(model, "operations")
            THEN [operations |-> Map(shallow, model.operations)]
            ELSE [x \in {} |-> x])
        @@ (IF Related(model, "storageTable")
            THEN [storageTable |-> ShallowTable(model.storageTable[1])]
            ELSE [x \in {} |-> x])

toViewModel(model) ==
    [id |-> model.id, name |-> model.name, description |-> model.description,
     layout |-> model.layout, storageModelId |-> model.storageModelId,
     storageTableId |-> model.storageTableId,
     createdAt |-> toISOString(model.createdAt),
     updatedAt |-> toISOString(model.updatedAt)]
    @@ (IF Related(model, "storageTable")
        THEN [storageTable |-> ShallowTable(model.storageTable[1])]
        ELSE [x \in {} |-> x])

toStorageTable(table) ==
    LET form(f) == toFormModel(f, TRUE)
    IN  [id |-> table.id, name |-> table.name, description |-> table.description,
         schema |-> table.schema, storageModelId |-> table.storageModelId,
         createdAt |-> toISOString(table.createdAt),
         updatedAt |-> toISOString(table.updatedAt),
         forms |-> Map(form, table.forms),
         views |-> Map(toViewModel, table.views)]

toStorageModel(model) ==
    LET shallow(operation) == toOperationModel(operation, FALSE)
    IN  [id |-> model.id, name |-> model.name, description |-> model.description,
         database |-> model.database, connection |-> model.connection,
         schema |-> model.schema,
         createdAt |-> toISOString(model.createdAt),
         updatedAt |-> toISOString(model.updatedAt),
         tables |-> Map(toStorageTable, model.tables),
         operations |-> Map(shallow, model.operations),
         views |-> Map(toViewModel, model.views)]

---------------------------------------------------------------------------
(* Domain schema documents are free-form JSON that the serializer inspects *)
(* with typeof: a scalar is tagged with its type, an array is tagged        *)
(* "array", an object is a record of such values.                           *)

JStr(s) == [t |-> "string", v |-> s]
JBool(b) == [t |-> "boolean", v |-> IF b THEN "true" ELSE "false"]
JNull == [t |-> "null", v |-> "null"]
JUndefined == [t |-> "undefined", v |-> "undefined"]
JArr(items) == [t |-> "array", items |-> items]

IsObject(x) == ~Has(x, "t")

TypeOf(obj, k) ==
    IF ~Has(obj, k) THEN "undefined"
    ELSE IF Has(obj[k], "t") THEN obj[k].t
    ELSE "object"

\* (an extraction that reads only the legacy spellings `column` and `label`)
toDomainFieldLegacyOnly(item) ==
    IF ~IsObject(item) THEN <<>>
    ELSE
    LET key == IF TypeOf(item, "column") = "string" THEN item.column.v ELSE ""
        name == IF TypeOf(item, "label") = "string" THEN item.label.v ELSE ""
    IN  IF key = "" \/ name = "" THEN <<>>
        ELSE << [key |-> JStr(key), name |-> JStr(name)] >>

\* the callback of fields.map in toDomainFields: <<>> stands for null
toDomainField(item) ==
    IF ~IsObject(item) THEN <<>>
    ELSE
    LET key == IF TypeOf(item, "key") = "string" THEN item.key.v
               ELSE IF TypeOf(item, "column") = "string" THEN item.column.v
               ELSE ""
        name == IF TypeOf(item, "name") = "string" THEN item.name.v
                ELSE IF TypeOf(item, "label") = "string" THEN item.label.v
                ELSE ""
    IN  IF key = "" \/ name = "" THEN <<>>
        ELSE << [key |-> JStr(key), name |-> JStr(name)]
                @@ (IF TypeOf(item, "type") = "string" THEN [type |-> item.type]
                    ELSE IF TypeOf(item, "dataType") = "string" THEN [type |-> item.dataType]
                    ELSE [x \in {} |-> x])
                @@ Optional("required", TypeOf(item, "required") = "boolean",
                            IF Has(item, "required") THEN item.required ELSE JNull)
                @@ Optional("description",
                            TypeOf(item, "description") \in {"string", "null"},
                            IF Has(item, "description") THEN item.description ELSE JNull) >>

\* (an extraction that stops after the first field it keeps)
toDomainFieldsFirstOnly(schema) ==
    IF ~IsObject(schema) THEN <<>>
    ELSE IF TypeOf(schema, "fields") # "array" THEN <<>>
    ELSE LET kept == Flatten(Map(toDomainField, schema.fields.items))
         IN  SubSeq(kept, 1, IF Len(kept) > 1 THEN 1 ELSE Len(kept))

toDomainFields(schema) ==
    IF ~IsObject(schema) THEN <<>>
    ELSE IF TypeOf(schema, "fields") # "array" THEN <<>>
    ELSE Flatten(Map(toDomainField, schema.fields.items))

\* `model.schema ? ... : null`: the values JavaScript takes for false
Falsy(value) == value \in {JNull, JUndefined, JStr(""), JBool(FALSE)}

\* (a domain serialized without the first of its linked views)
toDomainModelSkippingAView(model) ==
    LET schema == IF Has(model, "schema") THEN model.schema ELSE JUndefined
        fields == toDomainFields(schema)
        table(item) == toStorageTable(item.storageTable)
        view(item) == toViewModel(item.viewModel)
        form(item) == toFormModel(item.formModel, TRUE)
        operation(item) == toOperationModel(item.operationModel, TRUE)
    IN  [id |-> model.id, name |-> model.name, description |-> model.description,
         schema |-> IF Falsy(schema) THEN JNull ELSE [fields |-> JArr(fields)],
         fields |-> JArr(fields),
         storageTables |-> Map(table, model.storageTables),
         viewModels |-> Map(view, IF model.viewModels = <<>> THEN <<>>
                                  ELSE Tail(model.viewModels)),
         formModels |-> Map(form, model.formModels),
         operationModels |-> Map(operation, model.operationModels),
         createdAt |-> toISOString(model.createdAt),
         updatedAt |-> toISOString(model.updatedAt)]

toDomainModel(model) ==
    LET schema == IF Has(model, "schema") THEN model.schema ELSE JUndefined
        fields == toDomainFields(schema)
        table(item) == toStorageTable(item.storageTable)
        view(item) == toViewModel(item.viewModel)
        form(item) == toFormModel(item.formModel, TRUE)
        operation(item) == toOperationModel(item.operationModel, TRUE)
    IN  [id |-> model.id, name |-> model.name, description |-> model.description,
         schema |-> IF Falsy(schema) THEN JNull ELSE [fields |-> JArr(fields)],
         fields |-> JArr(fields),
         storageTables |-> Map(table, model.storageTables),
         viewModels |-> Map(view, model.viewModels),
         formModels |-> Map(form, model.formModels),
         operationModels |-> Map(operation, model.operationModels),
         createdAt |-> toISOString(model.createdAt),
         updatedAt |-> toISOString(model.updatedAt)]

\* The repository holds two sources of the module "@/lib/serializers": one whose
\* serializeDashboardData takes four lists and one that also takes domainModels.
LibSerializers == "lib/serializers.ts"
Part001 == "unnamed/part_001"

SerializerModules == {LibSerializers, Part001}

\* params.domainModels.map(...) on a call that passes no domainModels
SerializerThrows(params) == serializerModule = Part001 /\ ~Has(params, "domainModels")

TypeErrorMessage == "Cannot read properties of undefined"

\* params.formModels.map((model) => toFormModel(model, { includeOperations: true }))
\* throws when toFormModel throws for one of the forms
FormListThrows(params) ==
    \E form \in Range(params.formModels) : toFormModelThrows(form, TRUE)

serializeDashboardData(params) ==
    LET form(m) == toFormModel(m, TRUE)
        operation(o) == toOperationModel(o, TRUE)
        four == [storageModels |-> Map(toStorageModel, params.storageModels),
                 viewModels |-> Map(toViewModel, params.viewModels),
                 formModels |-> Map(form, params.formModels),
                 operationModels |-> Map(operation, params.operationModels)]
    IN  IF serializerModule = Part001
        THEN four @@ [domainModels |-> Map(toDomainModel, params.domainModels)]
        ELSE four

---------------------------------------------------------------------------
(* A function applied on its own: the function's name, its input, and the   *)
(* outputs of the applications made so far.                                 *)

NoProbe == [function |-> "none", input |-> <<>>, outputs |-> <<>>]

Probe(function, input) == [function |-> function, input |-> input, outputs |-> <<>>]

\* the function is applied: its result is recorded after the earlier ones
Applied(result) ==
    /\ probe' = [probe EXCEPT !.outputs = Append(@, result)]
    /\ UNCHANGED ui

\* the page as useState initialises it around the lists the server rendered it
\* with: nothing in flight, no flag set
PageOf(initialData) ==
    [isRefreshing |-> FALSE, isCreatingView |-> FALSE, isCreatingForm |-> FALSE,
     lists |-> initialData, posts |-> {}, fetches |-> <<>>]

\* no page is open
NoPage == PageOf(<<>>)

---------------------------------------------------------------------------
(* Requests *)

IdleRequest ==
    [pc |-> "idle", kind |-> "none", body |-> Malformed, data |-> <<>>,
     connection |-> 0, tableRows |-> <<>>, tables |-> <<>>, createdId |-> Null,
     pending |-> NoResponse, response |-> NoResponse, written |-> {}, calls |-> <<>>]

\* the log of the calls the handler has made, each with its outcome
Called(r, ops) == [calls |-> req[r].calls \o ops]

Ok(op) == [op |-> op, ok |-> TRUE]
Failed(op) == [op |-> op, ok |-> FALSE]

\* the request's record with the given fields replaced
Update(r, fields) ==
    /\ req' = [req EXCEPT ![r] = fields @@ req[r]]
    /\ UNCHANGED <<probe, ui>>

JsonResponse(status, doc) == [status |-> status, kind |-> "json", body |-> doc]

TextResponse(status, message) == [status |-> status, kind |-> "text", body |-> <<message>>]

\* the handler's promise rejects: the error left the handler
Unhandled(message) == [status |-> 0, kind |-> "unhandled", body |-> <<message>>]

Delivered(r) == req[r].pc = "done"

---------------------------------------------------------------------------
(* POST /api/storage-models/import *)

ImportFailed == "import failed: "

\* (a return that delivers the response without running the finally block)
ImportReturnSkippingFinally(r, response, fields) ==
    Update(r, [pc |-> "done", response |-> response] @@ fields)

\* `return response` inside try/catch: the finally block runs before the response
\* is delivered; with no connection it has nothing to await.
ImportReturn(r, response, fields) ==
    IF req[r].connection = 0
    THEN Update(r, [pc |-> "done", response |-> response] @@ fields)
    ELSE Update(r, [pc |-> "finally", pending |-> response] @@ fields)

\* (a handler that opens the connection before it validates the body)
ImportParseAfterConnecting(r) ==
    /\ req[r].kind = "import" /\ req[r].pc = "parse"
    /\ IF ~req[r].body.wellFormed
       THEN /\ ImportReturn(r, ErrorResponse(ImportFailed, JsonSyntaxError),
                   Called(r, <<Failed("json")>>))
            /\ UNCHANGED connections
       ELSE LET issues == importSchemaIssues(req[r].body.json)
            IN  IF issues # <<>>
                THEN /\ connections' = Append(connections,
                            [owner |-> r, state |-> "open", ends |-> 0, endedBy |-> {}])
                     /\ Update(r, [pc |-> "finally", pending |-> ZodErrorResponse(issues),
                                   connection |-> Len(connections) + 1]
                            @@ Called(r, <<Ok("json"), Ok("connect"), Failed("parse")>>))
                ELSE /\ Update(r, [pc |-> "connect",
                                   data |-> importSchemaParse(req[r].body.json)]
                                   @@ Called(r, <<Ok("json"), Ok("parse")>>))
                     /\ UNCHANGED connections
    /\ UNCHANGED <<serializerModule, store, nextId, catalog>>

\* request.json() and importSchema.parse(payload)
ImportParse(r) ==
    /\ req[r].kind = "import" /\ req[r].pc = "parse"
    /\ IF ~req[r].body.wellFormed
       THEN ImportReturn(r, ErrorResponse(ImportFailed, JsonSyntaxError),
                   Called(r, <<Failed("json")>>))
       ELSE LET issues == importSchemaIssues(req[r].body.json)
            IN  IF issues # <<>>
                THEN ImportReturn(r, ZodErrorResponse(issues),
                            Called(r, <<Ok("json"), Failed("parse")>>))
                ELSE Update(r, [pc |-> "connect",
                                data |-> importSchemaParse(req[r].body.json)]
                                @@ Called(r, <<Ok("json"), Ok("parse")>>))
    /\ UNCHANGED <<serializerModule, store, nextId, connections, catalog>>

\* (a connection attempt that is made again when it fails)
ImportConnectRetrying(r) ==
    /\ req[r].kind = "import" /\ req[r].pc = "connect"
    /\ \/ /\ Update(r, Called(r, <<Failed("connect")>>))
          /\ UNCHANGED connections
       \/ /\ connections' = Append(connections,
                                 [owner |-> r, state |-> "open", ends |-> 0, endedBy |-> {}])
          /\ Update(r, [pc |-> "tables", connection |-> Len(connections) + 1]
                       @@ Called(r, <<Ok("connect")>>))
    /\ UNCHANGED <<serializerModule, store, nextId, catalog>>

\* connection = await mysql.createConnection({...})
ImportConnect(r) ==
    /\ req[r].kind = "import" /\ req[r].pc = "connect"
    /\ \/ /\ ImportReturn(r, ErrorResponse(ImportFailed, DriverError),
                          Called(r, <<Failed("connect")>>))
          /\ UNCHANGED connections
       \/ /\ connections' = Append(connections,
                                 [owner |-> r, state |-> "open", ends |-> 0, endedBy |-> {}])
          /\ Update(r, [pc |-> "tables", connection |-> Len(connections) + 1]
                       @@ Called(r, <<Ok("connect")>>))
    /\ UNCHANGED <<serializerModule, store, nextId, catalog>>

\* The requests import the same target database; its catalog does not change
\* while they run, and the model draws each listing when it is first read.
Unread == <<>>

ReadCatalog(listing, results, rows) ==
    IF catalog[listing] = Unread
    THEN rows \in results /\ catalog' = [catalog EXCEPT ![listing] = <<rows>>]
    ELSE rows = catalog[listing][1] /\ UNCHANGED catalog

\* const [tableRows] = await connection.query(... INFORMATION_SCHEMA.TABLES ...)
ImportQueryTables(r) ==
    /\ req[r].kind = "import" /\ req[r].pc = "tables"
    /\ \/ /\ ImportReturn(r, ErrorResponse(ImportFailed, DriverError),
                          Called(r, <<Failed("tables")>>))
          /\ UNCHANGED catalog
       \/ \E rows \in TableResults :
            /\ ReadCatalog("tables", TableResults, rows)
            /\ Update(r, [pc |-> "columns", tableRows |-> rows]
                         @@ Called(r, <<Ok("tables")>>))
    /\ UNCHANGED <<serializerModule, store, nextId, connections>>

NoTablesResponse == TextResponse(400, "no tables detected in the target database")

\* const [columnRows] = await connection.query(... INFORMATION_SCHEMA.COLUMNS ...),
\* then the empty check, the grouping and the table list
ImportQueryColumns(r) ==
    /\ req[r].kind = "import" /\ req[r].pc = "columns"
    /\ \/ /\ ImportReturn(r, ErrorResponse(ImportFailed, DriverError),
                          Called(r, <<Failed("columns")>>))
          /\ UNCHANGED catalog
       \/ \E columnRows \in ColumnResults :
            /\ ReadCatalog("columns", ColumnResults, columnRows)
            /\ IF Len(req[r].tableRows) = 0
               THEN ImportReturn(r, NoTablesResponse, Called(r, <<Ok("columns")>>))
               ELSE Update(r, [pc |-> "create",
                               tables |-> BuildTables(req[r].tableRows, columnRows)]
                              @@ Called(r, <<Ok("columns")>>))
    /\ UNCHANGED <<serializerModule, store, nextId, connections>>

\* the rows prisma.dataStorageModel.create writes: the model and its tables
ImportModelRow(data, tables, id, now) ==
    [id |-> id,
     name |-> data.name,
     description |-> IF data.description = "" THEN Null ELSE data.description,
     database |-> data.connection.database,
     connection |-> ConnectionDescriptor(data.connection),
     schema |-> [importedAt |-> toISOString(now),
                 tables |-> [i \in 1..Len(tables) |->
                                [name |-> tables[i].name,
                                 description |-> tables[i].description,
                                 columns |-> tables[i].columns]]],
     createdAt |-> now, updatedAt |-> now]

\* (child records written in the reverse of the descriptor's order)
ImportTableRowsReversed(tables, modelId, firstId, now) ==
    [i \in 1..Len(tables) |->
        [id |-> NewId(firstId + i - 1),
         name |-> tables[Len(tables) + 1 - i].name,
         description |-> tables[Len(tables) + 1 - i].description,
         schema |-> [columns |-> tables[Len(tables) + 1 - i].columns],
         storageModelId |-> modelId,
         createdAt |-> now, updatedAt |-> now]]

ImportTableRows(tables, modelId, firstId, now) ==
    [i \in 1..Len(tables) |->
        [id |-> NewId(firstId + i - 1),
         name |-> tables[i].name,
         description |-> tables[i].description,
         schema |-> [columns |-> tables[i].columns],
         storageModelId |-> modelId,
         createdAt |-> now, updatedAt |-> now]]

\* await prisma.dataStorageModel.create({...}), then serializeDashboardData and
\* NextResponse.json(serialized.storageModels[0])
ImportCreate(r) ==
    /\ req[r].kind = "import" /\ req[r].pc = "create"
    /\ \/ /\ ImportReturn(r, ErrorResponse(ImportFailed, StoreError),
                          Called(r, <<Failed("create")>>))
          /\ UNCHANGED <<store, nextId>>
       \/ LET tables == req[r].tables
              modelRow == ImportModelRow(req[r].data, tables, NewId(nextId), nextId)
              tableRows == ImportTableRows(tables, modelRow.id, nextId + 1, nextId)
              after == [store EXCEPT !.storageModels = Append(@, modelRow),
                                     !.storageTables = @ \o tableRows]
              createdModel == LoadStorageModel(after, modelRow)
              params == [storageModels |-> <<createdModel>>, viewModels |-> <<>>,
                         formModels |-> <<>>, operationModels |-> <<>>]
              ids == [written |-> {modelRow.id} \cup Ids(tableRows),
                      createdId |-> modelRow.id]
          IN  /\ store' = after
              /\ nextId' = nextId + 1 + Len(tables)
              /\ IF SerializerThrows(params)
                 THEN ImportReturn(r, ErrorResponse(ImportFailed, TypeErrorMessage),
                        ids @@ Called(r, <<Ok("create"), Failed("serialize")>>))
                 ELSE ImportReturn(r,
                        JsonResponse(200, serializeDashboardData(params).storageModels[1]),
                        ids @@ Called(r, <<Ok("create"), Ok("serialize")>>))
    /\ UNCHANGED <<serializerModule, connections, catalog>>

\* (a cleanup that waits until no other request holds an open connection)
ImportFinallyAwaitingOthers(r) ==
    /\ req[r].kind = "import" /\ req[r].pc = "finally"
    /\ \A c \in 1..Len(connections) :
          connections[c].owner # r => connections[c].state # "open"
    /\ connections' = [connections EXCEPT ![req[r].connection] =
                          [@ EXCEPT !.state = "closed", !.ends = @ + 1,
                                    !.endedBy = @ \cup {r}]]
    /\ \/ Update(r, [pc |-> "done", response |-> req[r].pending]
                     @@ Called(r, <<Ok("end")>>))
       \/ Update(r, [pc |-> "done", response |-> Unhandled(DriverError)]
                     @@ Called(r, <<Failed("end")>>))
    /\ UNCHANGED <<serializerModule, store, nextId, catalog>>

\* finally { if (connection) { await connection.end(); } }
ImportFinally(r) ==
    /\ req[r].kind = "import" /\ req[r].pc = "finally"
    /\ connections' = [connections EXCEPT ![req[r].connection] =
                          [@ EXCEPT !.state = "closed", !.ends = @ + 1,
                                    !.endedBy = @ \cup {r}]]
    /\ \/ Update(r, [pc |-> "done", response |-> req[r].pending]
                     @@ Called(r, <<Ok("end")>>))
       \/ Update(r, [pc |-> "done", response |-> Unhandled(DriverError)]
                     @@ Called(r, <<Failed("end")>>))
    /\ UNCHANGED <<serializerModule, store, nextId, catalog>>

---------------------------------------------------------------------------
(* zod objects strip the keys their schema does not name *)

Strip(obj, keys) == [k \in (DOMAIN obj) \cap keys |-> obj[k]]

\* an object without one of its keys
Without(row, k) == [x \in DOMAIN row \ {k} |-> row[x]]

\* the store rejects a row whose foreign key names no row (a PersistenceError)
ForeignKeyHolds(rows, id) == id = Null \/ id \in Ids(rows)

\* an absent optional string is stored as NULL
OrNull(obj, k) == IF Has(obj, k) THEN obj[k] ELSE Null

\* `value || undefined` on an optional string: absent, null and "" are stored as NULL
OrUndefined(obj, k) == IF Has(obj, k) /\ obj[k] # "" /\ obj[k] # Null THEN obj[k] ELSE Null

\* the create handlers have no finally block: the response is delivered as returned
Return(r, response, fields) == Update(r, [pc |-> "done", response |-> response] @@ fields)

---------------------------------------------------------------------------
(* POST /api/view-models *)

ViewFailed == "create view failed: "

layoutFieldSchemaIssues(f) ==
    StringMin1(f, "column", "column must not be empty")
    \o StringMin1(f, "label", "label must not be empty")

createViewSchemaIssues(p) ==
    StringMin1(p, "name", "view name must not be empty")
    \o StringMin1(p, "storageModelId", "a storage model is required")
    \o StringMin1(p, "storageTableId", "a table is required")
    \o (IF ~Has(p, "layout") THEN <<"Required">>
        ELSE IF ~Has(p.layout, "fields") THEN <<"Required">>
        ELSE (IF Len(p.layout.fields) < 1 THEN <<"select at least one field">> ELSE <<>>)
             \o Flatten(Map(layoutFieldSchemaIssues, p.layout.fields)))

createViewSchemaParse(p) ==
    LET field(f) == Strip(f, {"column", "label", "type", "sortable"})
    IN  Strip(p, {"name", "description", "storageModelId", "storageTableId"})
        @@ [layout |-> [fields |-> Map(field, p.layout.fields)]]

ViewParse(r) ==
    /\ req[r].kind = "view" /\ req[r].pc = "parse"
    /\ IF ~req[r].body.wellFormed
       THEN Return(r, ErrorResponse(ViewFailed, JsonSyntaxError),
                   Called(r, <<Failed("json")>>))
       ELSE LET issues == createViewSchemaIssues(req[r].body.json)
            IN  IF issues # <<>>
                THEN Return(r, ZodErrorResponse(issues),
                            Called(r, <<Ok("json"), Failed("parse")>>))
                ELSE Update(r, [pc |-> "create",
                                data |-> createViewSchemaParse(req[r].body.json)]
                                @@ Called(r, <<Ok("json"), Ok("parse")>>))
    /\ UNCHANGED <<serializerModule, store, nextId, connections, catalog>>

ViewRow(data, id, now) ==
    [id |-> id, name |-> data.name, description |-> OrNull(data, "description"),
     storageModelId |-> data.storageModelId, storageTableId |-> data.storageTableId,
     layout |-> data.layout, createdAt |-> now, updatedAt |-> now]

\* (a create that writes over the newest view instead of adding a row)
ViewCreateOverNewest(r) ==
    /\ req[r].kind = "view" /\ req[r].pc = "create"
    /\ LET row == ViewRow(req[r].data, NewId(nextId), nextId)
       IN  \/ /\ Return(r, ErrorResponse(ViewFailed, StoreError),
                        Called(r, <<Failed("create")>>))
              /\ UNCHANGED <<store, nextId>>
           \/ /\ ForeignKeyHolds(store.storageModels, row.storageModelId)
              /\ ForeignKeyHolds(store.storageTables, row.storageTableId)
              /\ store' = [store EXCEPT
                              !.viewModels = Append(SubSeq(@, 1, Len(@) - 1), row)]
              /\ nextId' = nextId + 1
              /\ Update(r, [pc |-> "reread", createdId |-> row.id, written |-> {row.id}]
                           @@ Called(r, <<Ok("create")>>))
    /\ UNCHANGED <<serializerModule, connections, catalog>>

\* await prisma.dataViewModel.create({ data })
ViewCreate(r) ==
    /\ req[r].kind = "view" /\ req[r].pc = "create"
    /\ LET row == ViewRow(req[r].data, NewId(nextId), nextId)
       IN  \/ /\ Return(r, ErrorResponse(ViewFailed, StoreError),
                        Called(r, <<Failed("create")>>))
              /\ UNCHANGED <<store, nextId>>
           \/ /\ ForeignKeyHolds(store.storageModels, row.storageModelId)
              /\ ForeignKeyHolds(store.storageTables, row.storageTableId)
              /\ store' = [store EXCEPT !.viewModels = Append(@, row)]
              /\ nextId' = nextId + 1
              /\ Update(r, [pc |-> "reread", createdId |-> row.id, written |-> {row.id}]
                           @@ Called(r, <<Ok("create")>>))
    /\ UNCHANGED <<serializerModule, connections, catalog>>

\* await prisma.dataViewModel.findUnique(...), then the response
ViewReread(r) ==
    /\ req[r].kind = "view" /\ req[r].pc = "reread"
    /\ \/ Return(r, ErrorResponse(ViewFailed, StoreError), Called(r, <<Failed("reread")>>))
       \/ LET found == FindById(store.viewModels, req[r].createdId)
              params == [storageModels |-> <<>>,
                         viewModels |-> <<LoadView(store, found[1])>>,
                         formModels |-> <<>>, operationModels |-> <<>>,
                         domainModels |-> <<>>]
          IN  IF found = <<>>
              THEN Return(r, TextResponse(500, "view model creation failed"),
                          Called(r, <<Ok("reread")>>))
              ELSE IF SerializerThrows(params)
              THEN Return(r, ErrorResponse(ViewFailed, TypeErrorMessage),
                          Called(r, <<Ok("reread"), Failed("serialize")>>))
              ELSE Return(r, JsonResponse(201, serializeDashboardData(params).viewModels[1]),
                          Called(r, <<Ok("reread"), Ok("serialize")>>))
    /\ UNCHANGED <<serializerModule, store, nextId, connections, catalog>>

---------------------------------------------------------------------------
(* POST /api/form-models *)

FormFailed == "create form failed: "

formFieldSchemaIssues(f) ==
    StringMin1(f, "column", "column must not be empty")
    \o StringMin1(f, "label", "label must not be empty")
    \o StringMin1(f, "component", "component must not be empty")

createFormSchemaIssues(p) ==
    StringMin1(p, "name", "form name must not be empty")
    \o StringMin1(p, "storageTableId", "a table is required")
    \o (IF ~Has(p, "schema") THEN <<"Required">>
        ELSE IF ~Has(p.schema, "fields") THEN <<"Required">>
        ELSE (IF Len(p.schema.fields) < 1 THEN <<"configure at least one field">> ELSE <<>>)
             \o Flatten(Map(formFieldSchemaIssues, p.schema.fields)))

\* required: z.boolean().default(false)
createFormSchemaParse(p) ==
    LET field(f) == Strip(f, {"column", "label", "required", "component"})
                    @@ [required |-> FALSE]
    IN  Strip(p, {"name", "description", "storageTableId"})
        @@ [schema |-> [fields |-> Map(field, p.schema.fields)]]

FormParse(r) ==
    /\ req[r].kind = "form" /\ req[r].pc = "parse"
    /\ IF ~req[r].body.wellFormed
       THEN Return(r, ErrorResponse(FormFailed, JsonSyntaxError),
                   Called(r, <<Failed("json")>>))
       ELSE LET issues == createFormSchemaIssues(req[r].body.json)
            IN  IF issues # <<>>
                THEN Return(r, ZodErrorResponse(issues),
                            Called(r, <<Ok("json"), Failed("parse")>>))
                ELSE Update(r, [pc |-> "create",
                                data |-> createFormSchemaParse(req[r].body.json)]
                                @@ Called(r, <<Ok("json"), Ok("parse")>>))
    /\ UNCHANGED <<serializerModule, store, nextId, connections, catalog>>

FormRow(data, id, now) ==
    [id |-> id, name |-> data.name, description |-> OrNull(data, "description"),
     storageTableId |-> data.storageTableId, schema |-> data.schema,
     createdAt |-> now, updatedAt |-> now]

\* (a create that writes over the newest form instead of adding a row)
FormCreateOverNewest(r) ==
    /\ req[r].kind = "form" /\ req[r].pc = "create"
    /\ LET row == FormRow(req[r].data, NewId(nextId), nextId)
       IN  \/ /\ Return(r, ErrorResponse(FormFailed, StoreError),
                        Called(r, <<Failed("create")>>))
              /\ UNCHANGED <<store, nextId>>
           \/ /\ ForeignKeyHolds(store.storageTables, row.storageTableId)
              /\ store' = [store EXCEPT
                              !.formModels = Append(SubSeq(@, 1, Len(@) - 1), row)]
              /\ nextId' = nextId + 1
              /\ Update(r, [pc |-> "reread", createdId |-> row.id, written |-> {row.id}]
                           @@ Called(r, <<Ok("create")>>))
    /\ UNCHANGED <<serializerModule, connections, catalog>>

\* await prisma.dataFormModel.create({ data })
FormCreate(r) ==
    /\ req[r].kind = "form" /\ req[r].pc = "create"
    /\ LET row == FormRow(req[r].data, NewId(nextId), nextId)
       IN  \/ /\ Return(r, ErrorResponse(FormFailed, StoreError),
                        Called(r, <<Failed("create")>>))
              /\ UNCHANGED <<store, nextId>>
           \/ /\ ForeignKeyHolds(store.storageTables, row.storageTableId)
              /\ store' = [store EXCEPT !.formModels = Append(@, row)]
              /\ nextId' = nextId + 1
              /\ Update(r, [pc |-> "reread", createdId |-> row.id, written |-> {row.id}]
                           @@ Called(r, <<Ok("create")>>))
    /\ UNCHANGED <<serializerModule, connections, catalog>>

\* await prisma.dataFormModel.findUnique(...), then the response
FormReread(r) ==
    /\ req[r].kind = "form" /\ req[r].pc = "reread"
    /\ \/ Return(r, ErrorResponse(FormFailed, StoreError), Called(r, <<Failed("reread")>>))
       \/ LET found == FindById(store.formModels, req[r].createdId)
              params == [storageModels |-> <<>>, viewModels |-> <<>>,
                         formModels |-> <<LoadForm(store, found[1])>>,
                         operationModels |-> <<>>, domainModels |-> <<>>]
          IN  IF found = <<>>
              THEN Return(r, TextResponse(500, "form model creation failed"),
                          Called(r, <<Ok("reread")>>))
              ELSE IF SerializerThrows(params)
              THEN Return(r, ErrorResponse(FormFailed, TypeErrorMessage),
                          Called(r, <<Ok("reread"), Failed("serialize")>>))
              ELSE Return(r, JsonResponse(201, serializeDashboardData(params).formModels[1]),
                          Called(r, <<Ok("reread"), Ok("serialize")>>))
    /\ UNCHANGED <<serializerModule, store, nextId, connections, catalog>>

---------------------------------------------------------------------------
(* POST /api/operation-models *)

OperationFailed == "create operation failed: "

OperationTypes == {"CREATE", "READ", "UPDATE", "DELETE", "CUSTOM"}

\* (a schema whose type is any string)
createOperationSchemaIssuesAnyType(p) ==
    StringMin1(p, "name", "operation name must not be empty")

createOperationSchemaIssues(p) ==
    StringMin1(p, "name", "operation name must not be empty")
    \o (IF Has(p, "type") /\ p.type \notin OperationTypes
        THEN <<"Invalid enum value">> ELSE <<>>)

\* type: z.enum([...]).default("READ")
createOperationSchemaParse(p) ==
    Strip(p, {"name", "description", "type", "endpoint", "method", "storageModelId",
              "formModelId", "requestSchema", "responseSchema"})
    @@ [type |-> "READ"]

OperationParse(r) ==
    /\ req[r].kind = "operation" /\ req[r].pc = "parse"
    /\ IF ~req[r].body.wellFormed
       THEN Return(r, ErrorResponse(OperationFailed, JsonSyntaxError),
                   Called(r, <<Failed("json")>>))
       ELSE LET issues == createOperationSchemaIssues(req[r].body.json)
            IN  IF issues # <<>>
                THEN Return(r, ZodErrorResponse(issues),
                            Called(r, <<Ok("json"), Failed("parse")>>))
                ELSE Update(r, [pc |-> "create",
                                data |-> createOperationSchemaParse(req[r].body.json)]
                                @@ Called(r, <<Ok("json"), Ok("parse")>>))
    /\ UNCHANGED <<serializerModule, store, nextId, connections, catalog>>

\* a Json? column left undefined is NULL
JsonOrNull(obj, k) == IF Has(obj, k) THEN obj[k] ELSE JNull

OperationRow(data, id, now) ==
    [id |-> id, name |-> data.name, description |-> OrNull(data, "description"),
     type |-> data.type, endpoint |-> OrNull(data, "endpoint"),
     method |-> OrNull(data, "method"),
     storageModelId |-> OrUndefined(data, "storageModelId"),
     formModelId |-> OrUndefined(data, "formModelId"),
     requestSchema |-> JsonOrNull(data, "requestSchema"),
     responseSchema |-> JsonOrNull(data, "responseSchema"),
     createdAt |-> now, updatedAt |-> now]

\* await prisma.dataOperationModel.create({ data })
OperationCreate(r) ==
    /\ req[r].kind = "operation" /\ req[r].pc = "create"
    /\ LET row == OperationRow(req[r].data, NewId(nextId), nextId)
       IN  \/ /\ Return(r, ErrorResponse(OperationFailed, StoreError),
                        Called(r, <<Failed("create")>>))
              /\ UNCHANGED <<store, nextId>>
           \/ /\ ForeignKeyHolds(store.storageModels, row.storageModelId)
              /\ ForeignKeyHolds(store.formModels, row.formModelId)
              /\ store' = [store EXCEPT !.operationModels = Append(@, row)]
              /\ nextId' = nextId + 1
              /\ Update(r, [pc |-> "reread", createdId |-> row.id, written |-> {row.id}]
                           @@ Called(r, <<Ok("create")>>))
    /\ UNCHANGED <<serializerModule, connections, catalog>>

\* await prisma.dataOperationModel.findUnique(...), then the response
OperationReread(r) ==
    /\ req[r].kind = "operation" /\ req[r].pc = "reread"
    /\ \/ Return(r, ErrorResponse(OperationFailed, StoreError), Called(r, <<Failed("reread")>>))
       \/ LET found == FindById(store.operationModels, req[r].createdId)
              params == [storageModels |-> <<>>, viewModels |-> <<>>,
                         formModels |-> <<>>,
                         operationModels |-> <<LoadOperation(store, found[1])>>]
          IN  IF found = <<>>
              THEN Return(r, TextResponse(500, "operation model creation failed"),
                          Called(r, <<Ok("reread")>>))
              ELSE IF SerializerThrows(params)
              THEN Return(r, ErrorResponse(OperationFailed, TypeErrorMessage),
                          Called(r, <<Ok("reread"), Failed("serialize")>>))
              ELSE Return(r,
                     JsonResponse(201, serializeDashboardData(params).operationModels[1]),
                          Called(r, <<Ok("reread"), Ok("serialize")>>))
    /\ UNCHANGED <<serializerModule, store, nextId, connections, catalog>>

---------------------------------------------------------------------------
(* POST /api/domain-models *)

DomainFailed == "create domain failed: "

\* z.string().min(1, msg) on a tagged JSON value
JsonStringMin1(obj, k, msg) ==
    IF ~Has(obj, k) THEN <<"Required">>
    ELSE IF TypeOf(obj, k) # "string" THEN <<"Expected string">>
    ELSE IF obj[k].v = "" THEN <<msg>>
    ELSE <<>>

domainFieldSchemaIssues(f) ==
    JsonStringMin1(f, "key", "field key must not be empty")
    \o JsonStringMin1(f, "name", "field name must not be empty")
    \o (IF TypeOf(f, "type") \notin {"undefined", "string"}
        THEN <<"Expected string">> ELSE <<>>)
    \o (IF TypeOf(f, "required") \notin {"undefined", "boolean"}
        THEN <<"Expected boolean">> ELSE <<>>)
    \o (IF TypeOf(f, "description") \notin {"undefined", "string", "null"}
        THEN <<"Expected string">> ELSE <<>>)

\* z.array(z.string().min(1)).optional()
idArrayIssues(p, k) ==
    LET one(id) == IF id = "" THEN <<"String must contain at least 1 character(s)">>
                   ELSE <<>>
    IN  IF Has(p, k) THEN Flatten(Map(one, p[k])) ELSE <<>>

createDomainSchemaIssues(p) ==
    StringMin1(p, "name", "domain name must not be empty")
    \o (IF ~Has(p, "schema") THEN <<"Required">>
        ELSE IF ~Has(p.schema, "fields") THEN <<"Required">>
        ELSE IF TypeOf(p.schema, "fields") # "array" THEN <<"Expected array">>
        ELSE (IF Len(p.schema.fields.items) < 1
              THEN <<"define at least one business field">> ELSE <<>>)
             \o Flatten(Map(domainFieldSchemaIssues, p.schema.fields.items)))
    \o idArrayIssues(p, "storageTableIds")
    \o idArrayIssues(p, "viewModelIds")
    \o idArrayIssues(p, "formModelIds")
    \o idArrayIssues(p, "operationModelIds")

\* Array.from(new Set(value)): the first occurrence of each value, in order
RECURSIVE ArrayFromSet(_)
ArrayFromSet(value) ==
    IF value = <<>> THEN <<>>
    ELSE LET front == ArrayFromSet(SubSeq(value, 1, Len(value) - 1))
             last == value[Len(value)]
         IN  IF last \in Range(front) THEN front ELSE Append(front, last)

\* (the id array taken as submitted)
uniqueIdArraySchemaKeepingDuplicates(p, k) == IF Has(p, k) THEN p[k] ELSE <<>>

\* uniqueIdArraySchema: .optional().transform((value) => value ? Array.from(new Set(value)) : [])
uniqueIdArraySchema(p, k) == IF Has(p, k) THEN ArrayFromSet(p[k]) ELSE <<>>

createDomainSchemaParse(p) ==
    LET field(f) == Strip(f, {"key", "name", "type", "required", "description"})
    IN  Strip(p, {"name", "description"})
        @@ [schema |-> [fields |-> JArr(Map(field, p.schema.fields.items))],
            storageTableIds |-> uniqueIdArraySchema(p, "storageTableIds"),
            viewModelIds |-> uniqueIdArraySchema(p, "viewModelIds"),
            formModelIds |-> uniqueIdArraySchema(p, "formModelIds"),
            operationModelIds |-> uniqueIdArraySchema(p, "operationModelIds")]

DomainParse(r) ==
    /\ req[r].kind = "domain" /\ req[r].pc = "parse"
    /\ IF ~req[r].body.wellFormed
       THEN Return(r, ErrorResponse(DomainFailed, JsonSyntaxError),
                   Called(r, <<Failed("json")>>))
       ELSE LET issues == createDomainSchemaIssues(req[r].body.json)
            IN  IF issues # <<>>
                THEN Return(r, ZodErrorResponse(issues),
                            Called(r, <<Ok("json"), Failed("parse")>>))
                ELSE Update(r, [pc |-> "create",
                                data |-> createDomainSchemaParse(req[r].body.json)]
                                @@ Called(r, <<Ok("json"), Ok("parse")>>))
    /\ UNCHANGED <<serializerModule, store, nextId, connections, catalog>>

DomainRow(data, id, now) ==
    [id |-> id, name |-> data.name, description |-> OrUndefined(data, "description"),
     schema |-> data.schema, createdAt |-> now, updatedAt |-> now]

\* xs: { create: ids.map((id) => ({ x: { connect: { id } } })) }
JoinRows(domainId, ids) ==
    [i \in 1..Len(ids) |-> [domainModelId |-> domainId, targetId |-> ids[i]]]

\* await prisma.dataDomainModel.create({ data }): the domain and its join rows are
\* written together or not at all; connect fails on an id that names no row
DomainCreate(r) ==
    /\ req[r].kind = "domain" /\ req[r].pc = "create"
    /\ LET data == req[r].data
           row == DomainRow(data, NewId(nextId), nextId)
       IN  \/ /\ Return(r, ErrorResponse(DomainFailed, StoreError),
                        Called(r, <<Failed("create")>>))
              /\ UNCHANGED <<store, nextId>>
           \/ /\ \A id \in Range(data.storageTableIds) :
                    ForeignKeyHolds(store.storageTables, id)
              /\ \A id \in Range(data.viewModelIds) : ForeignKeyHolds(store.viewModels, id)
              /\ \A id \in Range(data.formModelIds) : ForeignKeyHolds(store.formModels, id)
              /\ \A id \in Range(data.operationModelIds) :
                    ForeignKeyHolds(store.operationModels, id)
              /\ store' = [store EXCEPT
                    !.domainModels = Append(@, row),
                    !.domainStorageTables = @ \o JoinRows(row.id, data.storageTableIds),
                    !.domainViewModels = @ \o JoinRows(row.id, data.viewModelIds),
                    !.domainFormModels = @ \o JoinRows(row.id, data.formModelIds),
                    !.domainOperationModels = @ \o JoinRows(row.id, data.operationModelIds)]
              /\ nextId' = nextId + 1
              /\ Update(r, [pc |-> "reread", createdId |-> row.id, written |-> {row.id}]
                           @@ Called(r, <<Ok("create")>>))
    /\ UNCHANGED <<serializerModule, connections, catalog>>

\* await prisma.dataDomainModel.findUnique(...), then the response:
\* payloadResponse.domainModels[0] throws when the serializer returned no domainModels
DomainReread(r) ==
    /\ req[r].kind = "domain" /\ req[r].pc = "reread"
    /\ \/ Return(r, ErrorResponse(DomainFailed, StoreError), Called(r, <<Failed("reread")>>))
       \/ LET found == FindById(store.domainModels, req[r].createdId)
              params == [storageModels |-> <<>>, viewModels |-> <<>>,
                         formModels |-> <<>>, operationModels |-> <<>>,
                         domainModels |-> <<LoadDomain(store, found[1])>>]
          IN  IF found = <<>>
              THEN Return(r, TextResponse(500, "domain model creation failed"),
                          Called(r, <<Ok("reread")>>))
              ELSE IF SerializerThrows(params)
                      \/ ~Has(serializeDashboardData(params), "domainModels")
              THEN Return(r, ErrorResponse(DomainFailed, TypeErrorMessage),
                          Called(r, <<Ok("reread"), Failed("serialize")>>))
              ELSE Return(r,
                     JsonResponse(201, serializeDashboardData(params).domainModels[1]),
                          Called(r, <<Ok("reread"), Ok("serialize")>>))
    /\ UNCHANGED <<serializerModule, store, nextId, connections, catalog>>

---------------------------------------------------------------------------
(* Request bodies of the create handlers *)

ViewPayloads ==
    { [name |-> "user list", storageModelId |-> "s1", storageTableId |-> "t1",
       layout |-> [fields |-> <<[column |-> "id", label |-> "ID", sortable |-> TRUE],
                                [column |-> "name", label |-> "Name"]>>]],
      [name |-> "wide list", description |-> "", storageModelId |-> "s1",
       storageTableId |-> "t2",
       layout |-> [density |-> "compact",
                   fields |-> <<[column |-> "id", label |-> "ID", width |-> "80"]>>]],
      [name |-> "orphan", storageModelId |-> "s1", storageTableId |-> "zz",
       layout |-> [fields |-> <<[column |-> "id", label |-> "ID"]>>]],
      [name |-> "", storageModelId |-> "s1", storageTableId |-> "t1",
       layout |-> [fields |-> <<>>]] }

\* the dashboard sends schema.meta with every form
FormPayloads ==
    { [name |-> "sign up", storageTableId |-> "t1",
       schema |-> [meta |-> [usage |-> "submission"],
                   fields |-> <<[column |-> "name", label |-> "Name", required |-> TRUE,
                                 component |-> "text"]>>]],
      [name |-> "quick add", description |-> "short", storageTableId |-> "t2",
       schema |-> [fields |-> <<[column |-> "id", label |-> "ID", component |-> "number"]>>]],
      [name |-> "empty", storageTableId |-> "t1", schema |-> [fields |-> <<>>]] }

OperationPayloads ==
    { [name |-> "listUsers", storageModelId |-> ""],
      [name |-> "createUser", type |-> "CREATE", endpoint |-> "/users", method |-> "POST",
       storageModelId |-> "s1", formModelId |-> "f1",
       requestSchema |-> [body |-> "user"]],
      [name |-> "patchUser", type |-> "PATCH"],
      [name |-> "dangling", formModelId |-> "zz"] }
    \cup { [name |-> "touch", type |-> type] : type \in OperationTypes \ {"CREATE"} }

\* the id arrays of a create-domain request: up to MaxIds picks among two rows
IdPicks == UNION { [1..n -> {1, 2}] : n \in 0..MaxIds }

IdArray(prefix, picks) ==
    [i \in 1..Len(picks) |-> IF picks[i] = 1 THEN prefix[1] ELSE prefix[2]]

DomainFieldsPayload ==
    JArr(<< [key |-> JStr("uid"), name |-> JStr("User ID")],
            [key |-> JStr("email"), name |-> JStr("Email"), type |-> JStr("string"),
             required |-> JBool(TRUE), description |-> JNull] >>)

DomainPayloads ==
    { [name |-> "user", schema |-> [fields |-> DomainFieldsPayload],
       storageTableIds |-> IdArray(<<"t1", "t2">>, picks),
       viewModelIds |-> IdArray(<<"v1", "v2">>, picks),
       formModelIds |-> IdArray(<<"f1", "f2">>, picks),
       operationModelIds |-> IdArray(<<"o1", "o2">>, picks)] : picks \in IdPicks }
    \cup
    { [name |-> "bare", description |-> "no links",
       schema |-> [fields |-> DomainFieldsPayload]],
      [name |-> "orphan", schema |-> [fields |-> DomainFieldsPayload],
       operationModelIds |-> <<"o1", "zz">>],
      [name |-> "", schema |-> [fields |-> JArr(<<>>)], storageTableIds |-> <<"t1">>] }

\* the POST handlers
WriteKinds == {"import", "view", "form", "operation", "domain"}

\* the GET handlers: the dashboard snapshot and the five lists
ListKinds == {"storage-models", "view-models", "form-models", "operation-models",
              "domain-models"}

ReadKinds == {"dashboard"} \cup ListKinds

Kinds == WriteKinds \cup ReadKinds

\* a GET carries no body
BodiesOf(kind) ==
    IF kind \in ReadKinds THEN {Malformed}
    ELSE
    {Malformed} \cup
    { WellFormed(p) : p \in
        CASE kind = "import" -> ImportPayloads
          [] kind = "view" -> ViewPayloads
          [] kind = "form" -> FormPayloads
          [] kind = "operation" -> OperationPayloads
          [] kind = "domain" -> DomainPayloads }

---------------------------------------------------------------------------
(* The store the requests find, as earlier requests left it: one imported   *)
(* model with two tables, and two views, forms and operations.             *)

SeedTables ==
    BuildTables(<<TableRow(1), TableRow(2)>>,
                <<ColumnRow(1, "id"), ColumnRow(1, "name"), ColumnRow(2, "id")>>)

SeedImport ==
    [name |-> "seed", description |-> "",
     connection |-> [host |-> <<"h">>, user |-> <<"r">>, database |-> <<"d">>,
                     password |-> <<>>, port |-> DefaultPort]]

SeedLayout == [fields |-> <<[column |-> "id", label |-> "ID"]>>]

SeedFormSchema ==
    [fields |-> <<[column |-> "id", label |-> "ID", required |-> FALSE,
                   component |-> "number"]>>]

SeedStore ==
    [storageModels |-> <<ImportModelRow(SeedImport, SeedTables, "s1", 0)>>,
     storageTables |->
        [i \in 1..2 |-> [ImportTableRows(SeedTables, "s1", 1, 0)[i]
                            EXCEPT !.id = <<"t1", "t2">>[i]]],
     viewModels |->
        [i \in 1..2 |->
            ViewRow([name |-> "seed view", storageModelId |-> "s1",
                     storageTableId |-> <<"t1", "t2">>[i], layout |-> SeedLayout],
                    <<"v1", "v2">>[i], 0)],
     formModels |->
        [i \in 1..2 |->
            FormRow([name |-> "seed form", storageTableId |-> <<"t1", "t2">>[i],
                     schema |-> SeedFormSchema],
                    <<"f1", "f2">>[i], 0)],
     operationModels |->
        <<OperationRow([name |-> "seed read", type |-> "READ", storageModelId |-> "s1",
                        formModelId |-> "f1"], "o1", 0),
          OperationRow([name |-> "seed custom", type |-> "CUSTOM"], "o2", 0)>>,
     domainModels |-> <<>>,
     domainStorageTables |-> <<>>, domainViewModels |-> <<>>,
     domainFormModels |-> <<>>, domainOperationModels |-> <<>>]

---------------------------------------------------------------------------
(* The GET handlers.  None has a try/catch: an error leaves the handler.    *)

\* orderBy: { createdAt: "desc" }: newest first; rows created at the same time
\* stay in the order the store holds them
RECURSIVE OrderByCreatedAtDesc(_)
OrderByCreatedAtDesc(rows) ==
    IF rows = <<>> THEN <<>>
    ELSE LET first == Head(rows)
             rest == OrderByCreatedAtDesc(Tail(rows))
             newer(row) == row.createdAt > first.createdAt
             older(row) == row.createdAt <= first.createdAt
         IN  SelectSeq(rest, newer) \o <<first>> \o SelectSeq(rest, older)

\* the store's clock when the rows were read: the rows created before it existed
ReadAt(now) == [readAt |-> now]

\* prisma.x.findMany({ include, orderBy: { createdAt: "desc" } })
FindStorageModels(s) ==
    LET load(row) == LoadStorageModel(s, row)
    IN  Map(load, OrderByCreatedAtDesc(s.storageModels))

FindViews(s) ==
    LET load(row) == LoadView(s, row) IN Map(load, OrderByCreatedAtDesc(s.viewModels))

FindForms(s) ==
    LET load(row) == LoadForm(s, row) IN Map(load, OrderByCreatedAtDesc(s.formModels))

FindOperations(s) ==
    LET load(row) == LoadOperation(s, row)
    IN  Map(load, OrderByCreatedAtDesc(s.operationModels))

FindDomains(s) ==
    LET load(row) == LoadDomain(s, row)
    IN  Map(load, OrderByCreatedAtDesc(s.domainModels))

\* The repository holds two sources of the dashboard route, as it holds two of the
\* serializer: app/api/dashboard/route.ts reads four entity types and goes with the
\* four-list serializer, unnamed/part_000 reads five and goes with the other.
DashboardReadsDomains == serializerModule = Part001

\* GET /api/dashboard: await Promise.all([...findMany]), serializeDashboardData,
\* NextResponse.json(payload)
DashboardRead(r) ==
    /\ req[r].kind = "dashboard" /\ req[r].pc = "read"
    /\ \/ Return(r, Unhandled(StoreError), Called(r, <<Failed("findMany")>>))
       \/ LET four == [storageModels |-> FindStorageModels(store),
                       viewModels |-> FindViews(store),
                       formModels |-> FindForms(store),
                       operationModels |-> FindOperations(store)]
              params == IF DashboardReadsDomains
                        THEN four @@ [domainModels |-> FindDomains(store)]
                        ELSE four
          IN  Return(r, JsonResponse(200, serializeDashboardData(params)),
                     [data |-> ReadAt(nextId)]
                     @@ Called(r, <<Ok("findMany"), Ok("serialize")>>))
    /\ UNCHANGED <<serializerModule, store, nextId, connections, catalog>>

NoRows ==
    [storageModels |-> <<>>, viewModels |-> <<>>, formModels |-> <<>>,
     operationModels |-> <<>>, domainModels |-> <<>>]

\* the list a GET handler reads
ListOf(kind) ==
    CASE kind = "storage-models" -> "storageModels"
      [] kind = "view-models" -> "viewModels"
      [] kind = "form-models" -> "formModels"
      [] kind = "operation-models" -> "operationModels"
      [] kind = "domain-models" -> "domainModels"

FindMany(kind, s) ==
    CASE kind = "storage-models" -> FindStorageModels(s)
      [] kind = "view-models" -> FindViews(s)
      [] kind = "form-models" -> FindForms(s)
      [] kind = "operation-models" -> FindOperations(s)
      [] kind = "domain-models" -> FindDomains(s)

\* the handler's call of serializeDashboardData: the operation list passes no
\* domainModels
ListParams(kind, rows) ==
    LET lists == [NoRows EXCEPT ![ListOf(kind)] = rows]
    IN  IF kind = "operation-models" THEN Without(lists, "domainModels") ELSE lists

\* GET /api/<list>: await findMany, serializeDashboardData, NextResponse.json of
\* the one list; NextResponse.json(undefined) throws a TypeError
ListRead(r) ==
    /\ req[r].kind \in ListKinds /\ req[r].pc = "read"
    /\ \/ Return(r, Unhandled(StoreError), Called(r, <<Failed("findMany")>>))
       \/ LET params == ListParams(req[r].kind, FindMany(req[r].kind, store))
          IN  IF SerializerThrows(params)
                 \/ ~Has(serializeDashboardData(params), ListOf(req[r].kind))
              THEN Return(r, Unhandled(TypeErrorMessage),
                          [data |-> ReadAt(nextId)]
                          @@ Called(r, <<Ok("findMany"), Failed("serialize")>>))
              ELSE Return(r, JsonResponse(200,
                                 serializeDashboardData(params)[ListOf(req[r].kind)]),
                          [data |-> ReadAt(nextId)]
                          @@ Called(r, <<Ok("findMany"), Ok("serialize")>>))
    /\ UNCHANGED <<serializerModule, store, nextId, connections, catalog>>

---------------------------------------------------------------------------
(* Specification *)

KindOrder ==
    <<"import", "view", "form", "operation", "domain", "dashboard", "storage-models",
      "view-models", "form-models", "operation-models", "domain-models">>

Rank(kind) == CHOOSE i \in 1..Len(KindOrder) : KindOrder[i] = kind

\* Request names are interchangeable, so of two requests of different routes the
\* one whose route comes first in KindOrder is called r1, whichever arrives first;
\* of two requests of the same route the first to arrive is r1.
NamedInOrder(r, kind) ==
    IF r = "r1"
    THEN IF req["r2"].pc = "idle" THEN TRUE ELSE Rank(kind) < Rank(req["r2"].kind)
    ELSE IF req["r1"].pc = "idle" THEN Rank(kind) > 1
    ELSE Rank(req["r1"].kind) <= Rank(kind)

\* a request arrives
Receive(r) ==
    /\ req[r].pc = "idle"
    /\ \E kind \in Kinds : \E body \in BodiesOf(kind) :
          /\ NamedInOrder(r, kind)
          /\ Update(r, [pc |-> IF kind \in ReadKinds THEN "read" ELSE "parse",
                         kind |-> kind, body |-> body])
    /\ UNCHANGED <<serializerModule, store, nextId, connections, catalog>>

Init ==
    /\ serializerModule \in SerializerModules
    /\ store = SeedStore
    /\ nextId = 1
    /\ connections = <<>>
    /\ catalog = [tables |-> Unread, columns |-> Unread]
    /\ req = [r \in Reqs |-> IdleRequest]
    /\ probe = NoProbe
    /\ ui = NoPage

Next ==
    \E r \in Reqs :
        \/ Receive(r)
        \/ ImportParse(r)
        \/ ImportConnect(r)
        \/ ImportQueryTables(r)
        \/ ImportQueryColumns(r)
        \/ ImportCreate(r)
        \/ ImportFinally(r)
        \/ ViewParse(r)
        \/ ViewCreate(r)
        \/ ViewReread(r)
        \/ FormParse(r)
        \/ FormCreate(r)
        \/ FormReread(r)
        \/ OperationParse(r)
        \/ OperationCreate(r)
        \/ OperationReread(r)
        \/ DomainParse(r)
        \/ DomainCreate(r)
        \/ DomainReread(r)
        \/ DashboardRead(r)
        \/ ListRead(r)

Spec == Init /\ [][Next]_vars

\* the steps of the handler that serves request r: each is the code up to the
\* next await, and is taken when the awaited call has returned or failed
Handler(r) ==
    \/ ImportParse(r) \/ ImportConnect(r) \/ ImportQueryTables(r)
    \/ ImportQueryColumns(r) \/ ImportCreate(r) \/ ImportFinally(r)
    \/ ViewParse(r) \/ ViewCreate(r) \/ ViewReread(r)
    \/ FormParse(r) \/ FormCreate(r) \/ FormReread(r)
    \/ OperationParse(r) \/ OperationCreate(r) \/ OperationReread(r)
    \/ DomainParse(r) \/ DomainCreate(r) \/ DomainReread(r)
    \/ DashboardRead(r) \/ ListRead(r)

\* every external call eventually returns or fails: a handler that can take its
\* next step eventually takes it
LiveSpec == Init /\ [][Next]_vars /\ \A r \in Reqs : WF_vars(Handler(r))


---------------------------------------------------------------------------
(* Vocabulary of the properties *)

Imports == {r \in Reqs : req[r].kind = "import"}
Creates == {r \in Reqs : req[r].kind \in {"view", "form", "operation", "domain"}}
Writes == Imports \cup Creates

Payload(r) == req[r].body.json

InputIssues(r) ==
    CASE req[r].kind = "import" -> importSchemaIssues(Payload(r))
      [] req[r].kind = "view" -> createViewSchemaIssues(Payload(r))
      [] req[r].kind = "form" -> createFormSchemaIssues(Payload(r))
      [] req[r].kind = "operation" -> createOperationSchemaIssues(Payload(r))
      [] req[r].kind = "domain" -> createDomainSchemaIssues(Payload(r))

InvalidInput(r) == ~req[r].body.wellFormed \/ InputIssues(r) # <<>>

Did(r, op) == Ok(op) \in Range(req[r].calls)
FailedAt(r, op) == Failed(op) \in Range(req[r].calls)
Issued(r, op) == Did(r, op) \/ FailedAt(r, op)

EntityIds(s) ==
    Ids(s.storageModels) \cup Ids(s.storageTables) \cup Ids(s.viewModels)
    \cup Ids(s.formModels) \cup Ids(s.operationModels) \cup Ids(s.domainModels)

\* the targets the store links to a domain in one of its join tables
Linked(joinRows, domainId) ==
    LET mine(j) == j.domainModelId = domainId IN SelectSeq(joinRows, mine)

LinkKeys == {"storageTableIds", "viewModelIds", "formModelIds", "operationModelIds"}

JoinTable(k) ==
    CASE k = "storageTableIds" -> store.domainStorageTables
      [] k = "viewModelIds" -> store.domainViewModels
      [] k = "formModelIds" -> store.domainFormModels
      [] k = "operationModelIds" -> store.domainOperationModels

\* the ids a create-domain request submits under a key
Submitted(r, k) == IF Has(Payload(r), k) THEN Range(Payload(r)[k]) ELSE {}

OwnConnections(r) == {c \in 1..Len(connections) : connections[c].owner = r}

---------------------------------------------------------------------------
(* C1 *)

\* C1: on every exit path of the import handler, a connection the request opened
\* is closed exactly once, by that request, before the response is delivered, and
\* none stays open afterwards, whatever the other requests do meanwhile.
C1_ConnectionClosedOnEveryPath ==
    /\ \A c \in 1..Len(connections) :
          /\ connections[c].ends <= 1
          /\ connections[c].endedBy \subseteq {connections[c].owner}
          /\ (connections[c].state = "closed") <=> (connections[c].ends = 1)
          /\ Delivered(connections[c].owner) => connections[c].state = "closed"
    /\ \A r \in Imports :
          /\ Cardinality(OwnConnections(r)) = (IF Did(r, "connect") THEN 1 ELSE 0)
          /\ req[r].connection # 0 => req[r].connection \in OwnConnections(r)

\* two imports in flight: one has answered after a failed catalog query and has
\* closed its connection, the other's connection is still open
C1_Witness ==
    \E r1, r2 \in Imports :
        /\ r1 # r2
        /\ Delivered(r1) /\ FailedAt(r1, "columns")
        /\ req[r1].connection # 0 /\ connections[req[r1].connection].state = "closed"
        /\ req[r2].connection # 0 /\ connections[req[r2].connection].state = "open"

---------------------------------------------------------------------------
(* C2 *)

\* C2: no partial success: a failure response (4xx, 5xx) leaves no entity and no
\* join row of the request in the store; a success response means the entity and
\* every requested link are in the store.
C2_NoPartialSuccess ==
    \A r \in Writes : Delivered(r) =>
        /\ req[r].response.status >= 400 => req[r].written \cap EntityIds(store) = {}
        /\ req[r].response.status \in 200..299 =>
              /\ req[r].written # {}
              /\ req[r].written \subseteq EntityIds(store)
              /\ req[r].kind = "domain" =>
                    \A k \in LinkKeys :
                        Submitted(r, k) =
                            {j.targetId : j \in Range(Linked(JoinTable(k), req[r].createdId))}

---------------------------------------------------------------------------
(* C3 *)

ImportedTables(r) ==
    LET mine(t) == t.storageModelId = req[r].createdId
    IN  SelectSeq(store.storageTables, mine)

\* C3: an import whose create succeeded has persisted one StorageTable per distinct
\* table name the table query returned, and a table the column query returned no
\* row for is persisted with an empty columns list.
C3_OneTablePerCatalogTable ==
    \A r \in Imports : Did(r, "create") =>
        LET names == {row.tableName : row \in Range(req[r].tableRows)}
            withColumns == {row.tableName : row \in Range(catalog.columns[1])}
        IN  /\ Len(ImportedTables(r)) = Cardinality(names)
            /\ {t.name : t \in Range(ImportedTables(r))} = names
            /\ \A t \in Range(ImportedTables(r)) :
                  t.name \notin withColumns => t.schema.columns = <<>>

\* a successful import (status 200) that persisted a table without columns
C3_Witness ==
    \E r \in Imports :
        /\ Delivered(r) /\ req[r].response.status = 200
        /\ Len(ImportedTables(r)) = 2
        /\ \E t \in Range(ImportedTables(r)) : t.schema.columns = <<>>
        /\ \E t \in Range(ImportedTables(r)) : t.schema.columns # <<>>

---------------------------------------------------------------------------
(* C4 *)

\* C4: an import whose table query returned no table ends with the fixed
\* "no tables" response (400) and persists nothing, whatever the other steps do.
C4_EmptyCatalogIsAlwaysNoTables ==
    \A r \in Imports :
        (Delivered(r) /\ Did(r, "tables") /\ req[r].tableRows = <<>>) =>
            /\ req[r].response = NoTablesResponse
            /\ req[r].written = {}

---------------------------------------------------------------------------
(* C5 *)

ImportedModel(r) == FindById(store.storageModels, req[r].createdId)[1]

SubmittedPassword(r) == Payload(r).connection.password

\* the text the handler's template spells from user, host, port and database
PasswordFreeText(r) ==
    LET conn == TransformConnection(Payload(r).connection)
    IN  <<"m", "y", "s", "q", "l", ":", "/", "/">> \o encodeURIComponent(conn.user)
        \o <<"@">> \o conn.host \o <<":">> \o DecimalString(conn.port)
        \o <<"/">> \o conn.database

\* C5 as claimed: the persisted connection descriptor never contains the submitted
\* password as a substring.
C5_DescriptorNeverContainsPassword ==
    \A r \in Imports :
        (Did(r, "create") /\ Has(Payload(r).connection, "password")) =>
            ~IsSubstring(SubmittedPassword(r), ImportedModel(r).connection)

\* C5 as amended: the persisted connection descriptor is the text built from user,
\* host, port and database alone, so it contains the submitted password only when
\* that text already spells it (a password equal to the user name, for instance).
C5_DescriptorBuiltWithoutPassword ==
    \A r \in Imports :
        (Did(r, "create") /\ Has(Payload(r).connection, "password")) =>
            /\ ImportedModel(r).connection = PasswordFreeText(r)
            /\ ~IsSubstring(SubmittedPassword(r), PasswordFreeText(r))
                  => ~IsSubstring(SubmittedPassword(r), ImportedModel(r).connection)

\* a persisted model whose request carried a password that its descriptor lacks
C5_Witness ==
    \E r \in Imports :
        /\ Did(r, "create")
        /\ SubmittedPassword(r) = <<"p", "w">>
        /\ ~IsSubstring(SubmittedPassword(r), ImportedModel(r).connection)
        /\ IsSubstring(<<"a", "%", "4", "0", "@", "h", ":">>, ImportedModel(r).connection)

---------------------------------------------------------------------------
(* C6 *)

\* C6: a request with missing or malformed input, a body that is not well-formed
\* included, is answered 400 with the per-field messages joined into one string,
\* before any connection attempt and any store write.
C6_InvalidInputIsRejectedWith400 ==
    \A r \in Writes : (Delivered(r) /\ InvalidInput(r)) =>
        /\ req[r].response.status = 400
        /\ req[r].response.kind = "text"
        /\ req[r].body.wellFormed => req[r].response.body = Join(InputIssues(r), ";")
        /\ req[r].written = {}
        /\ ~Issued(r, "connect") /\ ~Issued(r, "create")

---------------------------------------------------------------------------
(* C7 *)

AnyCallFailed(r) == \E call \in Range(req[r].calls) : ~call.ok

\* C7: every error raised inside a create or import (validation, connection,
\* catalog query, store write, re-read, serialization, connection close) reaches
\* the caller as one failed response with a message and a 4xx or 5xx status: none
\* becomes a success, none leaves the handler without a response.
C7_EveryErrorIsAFailedResponse ==
    \A r \in Writes : Delivered(r) =>
        /\ req[r].response.kind # "unhandled"
        /\ AnyCallFailed(r) =>
              /\ req[r].response.status \in 400..599
              /\ req[r].response.kind = "text"
              /\ req[r].response.body # <<>>

---------------------------------------------------------------------------
(* C8 *)

ExternalCalls == {"connect", "tables", "columns", "create", "reread", "end"}

AllExternalCallsOk(r) == \A call \in Range(req[r].calls) : call.op \in ExternalCalls => call.ok

\* C8: a request whose input is valid and whose store and catalog calls all
\* succeed (the catalog listing at least one table) is answered with a success
\* response (201 for the creates) whose body is the serialized entity: the
\* serialization never turns a successful write into a failure.
C8_ValidRequestIsAnsweredWithTheEntity ==
    \A r \in Writes :
        (/\ Delivered(r) /\ ~InvalidInput(r) /\ AllExternalCallsOk(r)
         /\ r \in Imports => req[r].tableRows # <<>>) =>
            /\ req[r].response.kind = "json"
            /\ req[r].response.status = (IF r \in Imports THEN 200 ELSE 201)
            /\ req[r].response.body.id = req[r].createdId

---------------------------------------------------------------------------
(* C9 *)

\* an optional foreign key of the request: submitted, and not the empty string
Names(p, k) == Has(p, k) /\ p[k] # "" /\ p[k] # Null

RoundTrip(kind, p, doc) ==
    /\ Has(doc, "id") /\ doc.name = p.name
    /\ CASE kind = "view" ->
              /\ doc.storageModelId = p.storageModelId
              /\ doc.storageTableId = p.storageTableId
              /\ doc.layout = p.layout
         [] kind = "form" ->
              /\ doc.storageTableId = p.storageTableId
              /\ doc.schema = p.schema
         [] kind = "operation" ->
              /\ Names(p, "storageModelId") =>
                    Has(doc, "storageModelId") /\ doc.storageModelId = p.storageModelId
              /\ Names(p, "formModelId") =>
                    Has(doc, "formModelId") /\ doc.formModelId = p.formModelId
              /\ Has(p, "requestSchema") => doc.requestSchema = p.requestSchema
              /\ Has(p, "responseSchema") => doc.responseSchema = p.responseSchema
         [] kind = "domain" ->
              /\ doc.schema = p.schema
              /\ doc.fields = p.schema.fields
              /\ {t.id : t \in Range(doc.storageTables)} = Range(p.storageTableIds)
              /\ {v.id : v \in Range(doc.viewModels)} = Range(p.viewModelIds)
              /\ {f.id : f \in Range(doc.formModels)} = Range(p.formModelIds)
              /\ {o.id : o \in Range(doc.operationModels)} = Range(p.operationModelIds)

NoLinks == [k \in LinkKeys |-> <<>>]

\* C9: the entity a create returns (status 201) carries the submitted name, the
\* submitted relation ids and the submitted content document exactly as sent, and
\* a generated id.
C9_CreateReturnsWhatWasSubmitted ==
    \A r \in Creates :
        (Delivered(r) /\ req[r].response.status = 201) =>
            RoundTrip(req[r].kind, Payload(r) @@ NoLinks, req[r].response.body)

---------------------------------------------------------------------------
(* C10 *)

DomainLinks(r, k) == Linked(JoinTable(k), req[r].createdId)

\* C10: a created domain has, for each of its four id arrays, exactly one join row
\* per distinct submitted id, however often the id was repeated in the array.
C10_OneJoinRowPerDistinctId ==
    \A r \in Reqs : (req[r].kind = "domain" /\ Did(r, "create")) =>
        \A k \in LinkKeys :
            /\ Len(DomainLinks(r, k)) = Cardinality(Submitted(r, k))
            /\ {j.targetId : j \in Range(DomainLinks(r, k))} = Submitted(r, k)

\* a created domain whose request named the same table and the same view twice
C10_Witness ==
    \E r \in Reqs :
        /\ req[r].kind = "domain" /\ Did(r, "create")
        /\ Has(Payload(r), "storageTableIds") /\ Has(Payload(r), "viewModelIds")
        /\ Payload(r).storageTableIds = <<"t1", "t1">>
        /\ Len(DomainLinks(r, "storageTableIds")) = 1
        /\ Payload(r).viewModelIds = <<"v1", "v1">>
        /\ Len(DomainLinks(r, "viewModelIds")) = 1

---------------------------------------------------------------------------
(* C11 *)

CreatedOperation(r) == FindById(store.operationModels, req[r].createdId)[1]

OperationRequests == {r \in Reqs : req[r].kind = "operation" /\ req[r].body.wellFormed}

\* C11: a create-operation request without `type` persists an operation of type
\* READ, one with a type of the closed set persists that type, one with any other
\* type is rejected with a validation error and persists nothing; every persisted
\* operation's type is in the closed set.
C11_OperationTypeIsDefaultedAndClosed ==
    /\ \A row \in Range(store.operationModels) : row.type \in OperationTypes
    /\ \A r \in OperationRequests :
          /\ Did(r, "create") =>
                CreatedOperation(r).type =
                    (IF Has(Payload(r), "type") THEN Payload(r).type ELSE "READ")
          /\ (Has(Payload(r), "type") /\ Payload(r).type \notin OperationTypes
              /\ req[r].pc # "parse") =>
                /\ Delivered(r) /\ req[r].response.status = 400
                /\ req[r].response.body = <<"Invalid enum value">>
                /\ req[r].written = {} /\ ~Issued(r, "create")

\* one request without a type has persisted a READ operation and another, with
\* the type PATCH, has been rejected
C11_Witness ==
    \E r1, r2 \in OperationRequests :
        /\ r1 # r2
        /\ ~Has(Payload(r1), "type") /\ Did(r1, "create")
        /\ CreatedOperation(r1).type = "READ"
        /\ Has(Payload(r2), "type") /\ Payload(r2).type = "PATCH"
        /\ Delivered(r2) /\ req[r2].response.status = 400

---------------------------------------------------------------------------
(* Domain field extraction applied to schema documents of any shape *)

\* entries of a fields array: current and legacy spellings, entries that resolve
\* no key or no name, values of the wrong type, and entries that are no objects
FieldEntries ==
    { [key |-> JStr("k1"), name |-> JStr("N1")],
      [column |-> JStr("c2"), label |-> JStr("L2"), dataType |-> JStr("int"),
       required |-> JBool(TRUE), description |-> JStr("d2")],
      [key |-> JStr(""), column |-> JStr("c3"), name |-> JStr("N3")],
      [key |-> JStr("k4")],
      [key |-> JStr("k5"), name |-> JStr(""), label |-> JStr("L5")],
      [key |-> JStr("k6"), name |-> JStr("N6"), type |-> JStr("string"),
       dataType |-> JStr("int"), required |-> JBool(FALSE), description |-> JNull],
      [key |-> JBool(TRUE), column |-> JStr("c7"), name |-> JNull, label |-> JStr("L7"),
       type |-> JBool(FALSE), dataType |-> JStr("text"), required |-> JStr("yes"),
       description |-> JBool(TRUE)],
      JNull,
      JStr("entry") }

FieldArrays == UNION { [1..n -> FieldEntries] : n \in 0..MaxFields }

SchemaDocuments ==
    { [fields |-> JArr(entries)] : entries \in FieldArrays }
    \cup { JNull, JUndefined, JStr("text"), [title |-> JStr("no fields")],
           [fields |-> JNull], [fields |-> JStr("k1")],
           [fields |-> [key |-> JStr("k1"), name |-> JStr("N1")]] }

\* toDomainFields(model.schema)
ExtractFields ==
    /\ probe.function = "toDomainFields" /\ Len(probe.outputs) = 0
    /\ Applied(toDomainFields(probe.input))
    /\ UNCHANGED <<serializerModule, store, nextId, connections, catalog, req>>

\* the serialized domain's schema { fields } is extracted from again
ExtractFieldsAgain ==
    /\ probe.function = "toDomainFields" /\ Len(probe.outputs) = 1
    /\ Applied(toDomainFields([fields |-> JArr(probe.outputs[1])]))
    /\ UNCHANGED <<serializerModule, store, nextId, connections, catalog, req>>

FieldsInit ==
    /\ serializerModule = Part001
    /\ store = SeedStore
    /\ nextId = 1
    /\ connections = <<>>
    /\ catalog = [tables |-> Unread, columns |-> Unread]
    /\ req = [r \in Reqs |-> IdleRequest]
    /\ probe \in { Probe("toDomainFields", schema) : schema \in SchemaDocuments }
    /\ ui = NoPage

FieldsNext == ExtractFields \/ ExtractFieldsAgain

FieldsSpec == FieldsInit /\ [][FieldsNext]_vars

---------------------------------------------------------------------------
(* C12 *)

\* C12: domain field extraction is idempotent: for every schema document, the
\* field list extracted from { fields: <the extracted list> } is the extracted
\* list itself.
C12_FieldExtractionIsIdempotent ==
    Len(probe.outputs) = 2 => probe.outputs[2] = probe.outputs[1]

\* a document with a legacy-spelled entry and a dropped entry, extracted twice:
\* the first extraction has normalized the spelling and dropped the entry
C12_Witness ==
    /\ probe.function = "toDomainFields" /\ Len(probe.outputs) = 2
    /\ IsObject(probe.input) /\ TypeOf(probe.input, "fields") = "array"
    /\ Len(probe.input.fields.items) = 2
    /\ Len(probe.outputs[1]) = 1
    /\ probe.outputs[1][1].key = JStr("c2")
    /\ probe.outputs[1] # probe.input.fields.items
    /\ probe.outputs[2] = probe.outputs[1]

---------------------------------------------------------------------------
(* The serializer applied to loaded rows whose optional relations are      *)
(* present, null or missing                                                *)

Presence == {"present", "null", "missing"}

\* a to-one relation: the loaded row, null, or no such key
WithOne(row, k, presence) ==
    CASE presence = "present" -> row
      [] presence = "null" -> [row EXCEPT ![k] = <<>>]
      [] presence = "missing" -> Without(row, k)

\* a to-many relation: the loaded list, null, or no such key
WithMany(row, k, presence) ==
    CASE presence = "present" -> row
      [] presence = "null" -> [row EXCEPT ![k] = <<>>] @@ [nulls |-> {k}]
      [] presence = "missing" -> Without(row, k)

\* a JSON column: a document, null, or no such key
WithJson(row, k, presence) ==
    CASE presence = "present" -> row
      [] presence = "null" -> [row EXCEPT ![k] = JNull]
      [] presence = "missing" -> Without(row, k)

ProbeDomainRow ==
    LoadDomain(SeedStore,
               DomainRow([name |-> "user", schema |-> [fields |-> DomainFieldsPayload]],
                         "d1", 0))

\* one row per list, each optional relation in each of its three states
SerializerParams ==
    { [storageModels |-> <<>>,
       viewModels |->
          <<WithOne(LoadView(SeedStore, SeedStore.viewModels[1]), "storageTable", p[1])>>,
       formModels |->
          <<WithMany(WithOne(LoadForm(SeedStore, SeedStore.formModels[1]),
                             "storageTable", p[2]),
                     "operations", p[3])>>,
       operationModels |->
          <<WithOne(LoadOperation(SeedStore, SeedStore.operationModels[1]),
                    "formModel", p[4])>>,
       domainModels |-> <<WithJson(ProbeDomainRow, "schema", p[5])>>]
      : p \in [1..5 -> Presence] }

TypeError == [error |-> "TypeError"]

\* serializeDashboardData(params)
Serialize ==
    /\ probe.function = "serializeDashboardData" /\ Len(probe.outputs) = 0
    /\ Applied(IF SerializerThrows(probe.input) \/ FormListThrows(probe.input)
               THEN TypeError
               ELSE serializeDashboardData(probe.input))
    /\ UNCHANGED <<serializerModule, store, nextId, connections, catalog, req>>

SerializerInit ==
    /\ serializerModule \in SerializerModules
    /\ store = SeedStore
    /\ nextId = 1
    /\ connections = <<>>
    /\ catalog = [tables |-> Unread, columns |-> Unread]
    /\ req = [r \in Reqs |-> IdleRequest]
    /\ probe \in { Probe("serializeDashboardData", params) : params \in SerializerParams }
    /\ ui = NoPage

SerializerNext == Serialize

SerializerSpec == SerializerInit /\ [][SerializerNext]_vars

---------------------------------------------------------------------------
(* C13 *)

Absent(row, k) == ~Has(row, k) \/ IsNullList(row, k) \/ row[k] = <<>>

\* C13: the serializer never throws because an optional relation (a view's or
\* form's storageTable, a form's operations, an operation's formModel, a domain's
\* schema) is null or missing in its input: it returns a document in which that
\* relation is omitted, an empty array or null.
C13_SerializerToleratesAbsentRelations ==
    (probe.function = "serializeDashboardData" /\ Len(probe.outputs) = 1) =>
        LET in == probe.input
            out == probe.outputs[1]
        IN  /\ ~Has(out, "error")
            /\ Absent(in.viewModels[1], "storageTable")
                  => ~Has(out.viewModels[1], "storageTable")
            /\ Absent(in.formModels[1], "storageTable")
                  => ~Has(out.formModels[1], "storageTable")
            /\ Absent(in.formModels[1], "operations")
                  => (~Has(out.formModels[1], "operations")
                      \/ out.formModels[1].operations = <<>>)
            /\ Absent(in.operationModels[1], "formModel")
                  => ~Has(out.operationModels[1], "formModel")
            /\ (serializerModule = Part001 /\ ~Has(in.domainModels[1], "schema"))
                  => /\ out.domainModels[1].schema = JNull
                     /\ out.domainModels[1].fields = JArr(<<>>)

---------------------------------------------------------------------------
(* C14 *)

EntityLists ==
    {"storageModels", "viewModels", "formModels", "operationModels", "domainModels"}

\* the ids of the entities of a list that existed when request r read the store
PersistedAtRead(r, list) ==
    {row.id : row \in {x \in Range(store[list]) : x.createdAt < req[r].data.readAt}}

Snapshots == {r \in Reqs : req[r].kind = "dashboard" /\ Did(r, "findMany")}

\* C14: the dashboard snapshot answers 200 with a document that has all five
\* lists, each with exactly one serialized entry per entity of that type persisted
\* at the time of the read.
C14_SnapshotHasFiveCompleteLists ==
    \A r \in Snapshots :
        /\ req[r].response.status = 200 /\ req[r].response.kind = "json"
        /\ \A list \in EntityLists :
              /\ Has(req[r].response.body, list)
              /\ Len(req[r].response.body[list]) = Cardinality(PersistedAtRead(r, list))
              /\ {entry.id : entry \in Range(req[r].response.body[list])}
                    = PersistedAtRead(r, list)

---------------------------------------------------------------------------
(* The grouping loop applied to column rows in any order: the rows of one  *)
(* table need not be adjacent, and a (table, column) pair may repeat.      *)

ColumnRowSeqs ==
    { Map(ColumnRowOfKey, s) : s \in UNION { [1..n -> ColumnKeys] : n \in 0..MaxGroupedRows } }

\* for (const column of columnRows) { ... columnsByTable.set(column.tableName, list) }
GroupColumns ==
    /\ probe.function = "columnsByTable" /\ Len(probe.outputs) = 0
    /\ Applied(columnsByTable(probe.input, <<>>))
    /\ UNCHANGED <<serializerModule, store, nextId, connections, catalog, req>>

\* columnsByTable.get(table.tableName) ?? [], for each table of the catalog
ReadBackColumns ==
    /\ probe.function = "columnsByTable" /\ Len(probe.outputs) = 1
    /\ LET grouped == probe.outputs[1]
           columns(i) == IF MapHas(grouped, CatalogTableNames[i])
                         THEN MapGet(grouped, CatalogTableNames[i]) ELSE <<>>
       IN  Applied([i \in TargetTables |-> columns(i)])
    /\ UNCHANGED <<serializerModule, store, nextId, connections, catalog, req>>

GroupingInit ==
    /\ serializerModule \in SerializerModules
    /\ store = SeedStore
    /\ nextId = 1
    /\ connections = <<>>
    /\ catalog = [tables |-> Unread, columns |-> Unread]
    /\ req = [r \in Reqs |-> IdleRequest]
    /\ probe \in { Probe("columnsByTable", columnRows) : columnRows \in ColumnRowSeqs }
    /\ ui = NoPage

GroupingNext == GroupColumns \/ ReadBackColumns

GroupingSpec == GroupingInit /\ [][GroupingNext]_vars

---------------------------------------------------------------------------
(* C15 *)

\* the rows of a sequence of column rows that belong to the i-th table, in order
RowsOfTable(columnRows, i) ==
    LET mine(row) == row.tableName = CatalogTableNames[i]
    IN  SelectSeq(columnRows, mine)

\* C15: ordinal-position stability: for every sequence of column rows, the column
\* list read back for a table after grouping is the sequence of that table's rows
\* in the order they were returned: nothing dropped, duplicated or moved to
\* another table, and the map holds each table name once.
C15_GroupingKeepsPerTableOrder ==
    (probe.function = "columnsByTable" /\ Len(probe.outputs) = 2) =>
        /\ \A i \in TargetTables :
              probe.outputs[2][i] = Map(ColumnSchemaOf, RowsOfTable(probe.input, i))
        /\ \A i, j \in 1..Len(probe.outputs[1]) :
              i # j => probe.outputs[1][i].key # probe.outputs[1][j].key

\* rows of two tables interleaved: the first table's two columns are read back
\* in the order returned, with the other table's row between them taken out
C15_Witness ==
    /\ probe.function = "columnsByTable" /\ Len(probe.outputs) = 2
    /\ Len(probe.input) = 3
    /\ probe.input[1].tableName = CatalogTableNames[1] /\ probe.input[1].columnName = "name"
    /\ probe.input[2].tableName = CatalogTableNames[2]
    /\ probe.input[3].tableName = CatalogTableNames[1] /\ probe.input[3].columnName = "id"
    /\ Len(probe.outputs[2][1]) = 2
    /\ probe.outputs[2][1][1].name = "name" /\ probe.outputs[2][1][2].name = "id"
    /\ Len(probe.outputs[2][2]) = 1

---------------------------------------------------------------------------
(* C16 *)

\* C16: in every reachable store state, the names in each persisted
\* StorageTable's column list are pairwise distinct (the column catalog lists a
\* column of a table once, and the import persists the lists as grouped).
C16_ColumnNamesUniquePerTable ==
    \A t \in Range(store.storageTables) :
        \A i, j \in 1..Len(t.schema.columns) :
            i # j => t.schema.columns[i].name # t.schema.columns[j].name

\* an import has persisted a table with two columns, of different names
C16_Witness ==
    \E r \in Imports :
        /\ Did(r, "create")
        /\ \E t \in Range(ImportedTables(r)) :
              /\ Len(t.schema.columns) = 2
              /\ t.schema.columns[1].name # t.schema.columns[2].name

---------------------------------------------------------------------------
(* C17 *)

\* a serialized list is newest-first: no entry is followed by a newer one
NewestFirst(list) ==
    \A i, j \in 1..Len(list) : i < j => list[i].createdAt[2] >= list[j].createdAt[2]

FormListsNewestFirst(form) ==
    Has(form, "operations") => NewestFirst(form.operations)

TableListsNewestFirst(table) ==
    /\ NewestFirst(table.forms) /\ NewestFirst(table.views)
    /\ \A i \in 1..Len(table.forms) : FormListsNewestFirst(table.forms[i])

StorageModelListsNewestFirst(model) ==
    /\ NewestFirst(model.tables) /\ NewestFirst(model.operations) /\ NewestFirst(model.views)
    /\ \A i \in 1..Len(model.tables) : TableListsNewestFirst(model.tables[i])

DomainListsNewestFirst(domain) ==
    /\ NewestFirst(domain.storageTables) /\ NewestFirst(domain.viewModels)
    /\ NewestFirst(domain.formModels) /\ NewestFirst(domain.operationModels)
    /\ \A i \in 1..Len(domain.storageTables) : TableListsNewestFirst(domain.storageTables[i])
    /\ \A i \in 1..Len(domain.formModels) : FormListsNewestFirst(domain.formModels[i])

\* a top-level list and the relation lists nested in its entries
AllListsNewestFirst(name, list) ==
    /\ NewestFirst(list)
    /\ \A i \in 1..Len(list) :
          CASE name = "storageModels" -> StorageModelListsNewestFirst(list[i])
            [] name = "formModels" -> FormListsNewestFirst(list[i])
            [] name = "domainModels" -> DomainListsNewestFirst(list[i])
            [] OTHER -> TRUE

\* the requests a GET handler answered with a serialized document
SerializedReads ==
    {r \in Reqs : req[r].kind \in ReadKinds /\ Delivered(r) /\ req[r].response.status = 200}

\* C17: every list of a serialized response, top-level or nested in an entry, is
\* in newest-first creation order.
C17_EveryListIsNewestFirst ==
    \A r \in SerializedReads :
        IF req[r].kind = "dashboard"
        THEN \A name \in DOMAIN req[r].response.body :
                AllListsNewestFirst(name, req[r].response.body[name])
        ELSE AllListsNewestFirst(ListOf(req[r].kind), req[r].response.body)

---------------------------------------------------------------------------
(* C18 *)

\* every row of `before` is still there, unchanged and at its place, in `after`
KeepsRows(before, after) ==
    /\ Len(before) <= Len(after)
    /\ \A i \in 1..Len(before) : after[i] = before[i]

\* request r is a read that is answered in this step
ReadAnswered(r) ==
    /\ req[r].kind \in ReadKinds /\ req[r].pc = "read"
    /\ req'[r].pc = "done"

StoreOnlyGrows ==
    /\ \A table \in DOMAIN store : KeepsRows(store[table], store'[table])
    /\ (\E r \in Reqs : ReadAnswered(r)) => store' = store

\* C18: lifecycle monotonicity: in every step of every interleaving, each
\* persisted row (entity or join row) stays in the store with all its fields
\* unchanged, and a step that answers a read leaves the whole store unchanged.
C18_LifecycleMonotonicity == [][StoreOnlyGrows]_vars

\* one request has created a view and another has been answered a list read:
\* the store holds the seed views, unchanged, before the new one
C18_Witness ==
    /\ \E r \in Creates : req[r].kind = "view" /\ Did(r, "create")
    /\ \E r \in SerializedReads : req[r].kind = "view-models"
    /\ Len(store.viewModels) = 3
    /\ SubSeq(store.viewModels, 1, 2) = SeedStore.viewModels

---------------------------------------------------------------------------
(* connectionSchema's transform applied to connections with any port: a    *)
(* number, a string over a small alphabet, or none                         *)

PortChars == {"-", "0", "7", " ", "x"}

PortStrings ==
    UNION { [1..n -> PortChars] : n \in 0..MaxPortChars }
    \cup { InfinityChars, <<"-">> \o InfinityChars, <<"3", "3", "0", "7">>,
           <<"+", "8", "0">>, <<"0", "X", "1", "f">> }

PortNumbers == {-1, 0, 1, 3306, 65535, 70000}

Ports ==
    { [num |-> n] : n \in PortNumbers } \cup { [inf |-> sign] : sign \in {-1, 1} }
    \cup { [str |-> chars] : chars \in PortStrings }

PortConnections ==
    { [host |-> <<"h">>, user |-> <<"r">>, database |-> <<"d">>] }
    \cup { [host |-> <<"h">>, user |-> <<"r">>, database |-> <<"d">>, port |-> port] :
              port \in Ports }

\* importSchema.parse(payload): the transform of the connection
NormalizePort ==
    /\ probe.function = "connectionSchema" /\ Len(probe.outputs) = 0
    /\ Applied(TransformConnection(probe.input))
    /\ UNCHANGED <<serializerModule, store, nextId, connections, catalog, req>>

\* mysql.createConnection({ host: conn.host, port: conn.port, ... }): the port
\* handed to the driver
ConnectWithPort ==
    /\ probe.function = "connectionSchema" /\ Len(probe.outputs) = 1
    /\ Applied(probe.outputs[1].port)
    /\ UNCHANGED <<serializerModule, store, nextId, connections, catalog, req>>

PortInit ==
    /\ serializerModule = LibSerializers
    /\ store = SeedStore
    /\ nextId = 1
    /\ connections = <<>>
    /\ catalog = [tables |-> Unread, columns |-> Unread]
    /\ req = [r \in Reqs |-> IdleRequest]
    /\ probe \in { Probe("connectionSchema", conn) : conn \in PortConnections }
    /\ ui = NoPage

PortNext == NormalizePort \/ ConnectWithPort

PortSpec == PortInit /\ [][PortNext]_vars

---------------------------------------------------------------------------
(* C19 *)

\* the submitted port is numeric, finite and greater than 0
UsablePort(conn) ==
    /\ Has(conn, "port")
    /\ LET number == NumberOf(conn.port)
       IN  ~number.nan /\ ~number.inf /\ number.val > 0

\* C19: the port used to connect is the submitted port when that is numeric,
\* finite and greater than 0, and 3306 when the port is absent, not numeric, or
\* not greater than 0; it is always a finite number greater than 0.
C19_PortIsSubmittedOrDefault ==
    (probe.function = "connectionSchema" /\ Len(probe.outputs) = 2) =>
        /\ probe.outputs[2] =
              IF UsablePort(probe.input) THEN NumberOf(probe.input.port).val
              ELSE DefaultPort
        /\ probe.outputs[2] \in Nat \ {0}

\* the string "0" is numeric but not greater than 0: the connection is made to 3306
C19_Witness ==
    /\ probe.function = "connectionSchema" /\ Len(probe.outputs) = 2
    /\ Has(probe.input, "port") /\ probe.input.port = [str |-> <<"0">>]
    /\ probe.outputs[2] = DefaultPort

---------------------------------------------------------------------------
(* C20 *)

\* the value of the first of two keys that holds a string, else ""
Resolved(item, first, legacy) ==
    IF TypeOf(item, first) = "string" THEN item[first].v
    ELSE IF TypeOf(item, legacy) = "string" THEN item[legacy].v
    ELSE ""

\* the entry is an object with a resolved non-empty key and name
HasKeyAndName(item) ==
    /\ IsObject(item)
    /\ Resolved(item, "key", "column") # ""
    /\ Resolved(item, "name", "label") # ""

\* the entries of the document's fields array, when it has one
EntriesOf(schema) ==
    IF IsObject(schema) /\ TypeOf(schema, "fields") = "array"
    THEN schema.fields.items ELSE <<>>

\* the field's key, name and type are the entry's resolved ones
ResolvedFrom(field, item) ==
    /\ field.key = JStr(Resolved(item, "key", "column"))
    /\ field.name = JStr(Resolved(item, "name", "label"))
    /\ IF TypeOf(item, "type") = "string" \/ TypeOf(item, "dataType") = "string"
       THEN Has(field, "type") /\ field.type.t = "string"
            /\ field.type.v = Resolved(item, "type", "dataType")
       ELSE ~Has(field, "type")

\* key k of the entry is in the field with the same value, or in neither
Unchanged(field, item, k) ==
    IF Has(item, k) THEN Has(field, k) /\ field[k] = item[k] ELSE ~Has(field, k)

\* key k of the entry is in the field, with the same value, exactly when its
\* value is of one of the given types
PassedWhen(field, item, k, types) ==
    IF TypeOf(item, k) \in types THEN Has(field, k) /\ field[k] = item[k]
    ELSE ~Has(field, k)

\* the extracted list is, in order, the kept entries, each related to its field
ExtractedAs(Passing(_, _)) ==
    (probe.function = "toDomainFields" /\ Len(probe.outputs) >= 1) =>
        LET kept == SelectSeq(EntriesOf(probe.input), HasKeyAndName)
            fields == probe.outputs[1]
        IN  /\ Len(fields) = Len(kept)
            /\ \A i \in 1..Len(kept) :
                  ResolvedFrom(fields[i], kept[i]) /\ Passing(fields[i], kept[i])

\* C20 as stated: the extraction returns exactly the entries with a resolved
\* non-empty key and name, in input order, the empty list when there is no
\* fields array, with `type` from `type` else `dataType`, and `required` and
\* `description` unchanged whatever they are.
C20_RequiredAndDescriptionUnchanged ==
    LET unchanged(field, item) ==
            Unchanged(field, item, "required") /\ Unchanged(field, item, "description")
    IN  ExtractedAs(unchanged)

\* C20: the extraction returns exactly the entries with a resolved non-empty key
\* and name, in input order, the empty list when there is no fields array, with
\* `type` from `type` else `dataType`; `required` is passed when it is a boolean
\* and `description` when it is a string or null, and each is left out otherwise.
C20_FieldsAreTheKeptEntries ==
    LET passed(field, item) ==
            /\ PassedWhen(field, item, "required", {"boolean"})
            /\ PassedWhen(field, item, "description", {"string", "null"})
    IN  ExtractedAs(passed)

\* a document whose entries are one without a name and one with a legacy key, a
\* `required` that is a string and a `description` that is a boolean: the
\* extraction keeps the second, with its dataType, and leaves both out
C20_Witness ==
    /\ probe.function = "toDomainFields" /\ Len(probe.outputs) >= 1
    /\ Len(EntriesOf(probe.input)) = 2
    /\ ~HasKeyAndName(EntriesOf(probe.input)[1])
    /\ TypeOf(EntriesOf(probe.input)[2], "required") = "string"
    /\ TypeOf(EntriesOf(probe.input)[2], "description") = "boolean"
    /\ Len(probe.outputs[1]) = 1
    /\ probe.outputs[1][1].key = JStr("c7")
    /\ probe.outputs[1][1].type = JStr("text")
    /\ ~Has(probe.outputs[1][1], "required")
    /\ ~Has(probe.outputs[1][1], "description")

---------------------------------------------------------------------------
(* The serializer applied to rows whose relations refer to each other: a   *)
(* table carries its forms and views, each of which carries the table      *)
(* again, and so on.  The cycle is followed `depth` times.                 *)

RECURSIVE UnrolledTable(_), UnrolledForm(_), UnrolledView(_), UnrolledOperation(_)

UnrolledTable(depth) ==
    SeedStore.storageTables[1]
    @@ [forms |-> IF depth = 0 THEN <<>> ELSE <<UnrolledForm(depth - 1)>>,
        views |-> IF depth = 0 THEN <<>> ELSE <<UnrolledView(depth - 1)>>]

UnrolledForm(depth) ==
    SeedStore.formModels[1]
    @@ [operations |-> IF depth = 0 THEN <<>> ELSE <<UnrolledOperation(depth - 1)>>,
        storageTable |-> IF depth = 0 THEN <<>> ELSE <<UnrolledTable(depth - 1)>>]

UnrolledView(depth) ==
    SeedStore.viewModels[1]
    @@ [storageTable |-> IF depth = 0 THEN <<>> ELSE <<UnrolledTable(depth - 1)>>,
        storageModel |-> <<>>]

UnrolledOperation(depth) ==
    SeedStore.operationModels[1]
    @@ [formModel |-> IF depth = 0 THEN <<>> ELSE <<UnrolledForm(depth - 1)>>,
        storageModel |-> <<>>]

UnrolledStorageModel(depth) ==
    SeedStore.storageModels[1]
    @@ [tables |-> <<UnrolledTable(depth)>>,
        operations |-> <<UnrolledOperation(depth)>>,
        views |-> <<UnrolledView(depth)>>]

UnrolledDomain(depth) ==
    DomainRow([name |-> "user", schema |-> [fields |-> DomainFieldsPayload]], "d1", 0)
    @@ [storageTables |-> <<[storageTable |-> UnrolledTable(depth)]>>,
        viewModels |-> <<[viewModel |-> UnrolledView(depth)]>>,
        formModels |-> <<[formModel |-> UnrolledForm(depth)]>>,
        operationModels |-> <<[operationModel |-> UnrolledOperation(depth)]>>]

UnrolledParams ==
    { [storageModels |-> <<UnrolledStorageModel(depth[1])>>,
       viewModels |-> <<UnrolledView(depth[2])>>,
       formModels |-> <<UnrolledForm(depth[3])>>,
       operationModels |-> <<UnrolledOperation(depth[4])>>,
       domainModels |-> <<UnrolledDomain(depth[5])>>]
      : depth \in [1..5 -> 0..MaxUnrolling] }

UnrolledInit ==
    /\ serializerModule \in SerializerModules
    /\ store = SeedStore
    /\ nextId = 1
    /\ connections = <<>>
    /\ catalog = [tables |-> Unread, columns |-> Unread]
    /\ req = [r \in Reqs |-> IdleRequest]
    /\ probe \in { Probe("serializeDashboardData", params) : params \in UnrolledParams }
    /\ ui = NoPage

UnrolledSpec == UnrolledInit /\ [][SerializerNext]_vars

---------------------------------------------------------------------------
(* C21 *)

LeafTable(table) == table.forms = <<>> /\ table.views = <<>>

LeafOperation(operation) == ~Has(operation, "formModel")

LeafForm(form) == ~Has(form, "operations") /\ ~Has(form, "storageTable")

ViewEnds(view) == Has(view, "storageTable") => LeafTable(view.storageTable)

FormEnds(form) ==
    /\ Has(form, "storageTable") => LeafTable(form.storageTable)
    /\ Has(form, "operations") => \A o \in Range(form.operations) : LeafOperation(o)

OperationEnds(operation) == Has(operation, "formModel") => LeafForm(operation.formModel)

TableEnds(table) ==
    /\ \A f \in Range(table.forms) : FormEnds(f)
    /\ \A v \in Range(table.views) : ViewEnds(v)

StorageModelEnds(model) ==
    /\ \A t \in Range(model.tables) : TableEnds(t)
    /\ \A o \in Range(model.operations) : LeafOperation(o)
    /\ \A v \in Range(model.views) : ViewEnds(v)

DomainEnds(domain) ==
    /\ \A t \in Range(domain.storageTables) : TableEnds(t)
    /\ \A v \in Range(domain.viewModels) : ViewEnds(v)
    /\ \A f \in Range(domain.formModels) : FormEnds(f)
    /\ \A o \in Range(domain.operationModels) : OperationEnds(o)

\* C21: recursion breaking: in every serialized document, a table given as the
\* storageTable of a view or form has empty forms and views, a form given as the
\* formModel of an operation has no operations and no storageTable, and an
\* operation nested in a storage model or a form has no formModel; so every chain
\* of nested entities ends after a fixed number of steps, however far the input
\* rows follow each other.
C21_BackReferencesAreLeaves ==
    (probe.function = "serializeDashboardData" /\ Len(probe.outputs) = 1) =>
        LET out == probe.outputs[1]
        IN  /\ ~Has(out, "error")
            /\ \A m \in Range(out.storageModels) : StorageModelEnds(m)
            /\ \A v \in Range(out.viewModels) : ViewEnds(v)
            /\ \A f \in Range(out.formModels) : FormEnds(f)
            /\ \A o \in Range(out.operationModels) : OperationEnds(o)
            /\ Has(out, "domainModels") => \A d \in Range(out.domainModels) : DomainEnds(d)

\* the view's table was loaded with a form that carries the table again, and the
\* operation's form with its operations: the serialized back-references are leaves
C21_Witness ==
    /\ probe.function = "serializeDashboardData" /\ Len(probe.outputs) = 1
    /\ probe.input.viewModels[1] = UnrolledView(3)
    /\ probe.input.operationModels[1] = UnrolledOperation(2)
    /\ UnrolledView(3).storageTable[1].forms[1].storageTable # <<>>
    /\ UnrolledOperation(2).formModel[1].operations # <<>>
    /\ probe.outputs[1].viewModels[1].storageTable.forms = <<>>
    /\ LeafForm(probe.outputs[1].operationModels[1].formModel)

---------------------------------------------------------------------------
(* C22 *)

\* the serialized domains of the responses delivered so far
SerializedDomains ==
    UNION { CASE req[r].kind = "domain" /\ req[r].response.status = 201
                   -> {req[r].response.body}
              [] req[r].kind = "domain-models" /\ req[r].response.status = 200
                   -> Range(req[r].response.body)
              [] req[r].kind = "dashboard" /\ req[r].response.status = 200
                       /\ Has(req[r].response.body, "domainModels")
                   -> Range(req[r].response.body.domainModels)
              [] OTHER -> {}
            : r \in {x \in Reqs : Delivered(x)} }

\* a serialized entity without the relation lists nested in it
OwnFields(doc) == [k \in DOMAIN doc \ {"forms", "views", "operations"} |-> doc[k]]

\* the resolved array has one element per join row, in join-row order, and the
\* element is the target serialized by `serialized`
Resolves(array, joinRows, domainId, serialized(_)) ==
    LET links == Linked(joinRows, domainId)
    IN  /\ Len(array) = Len(links)
        /\ \A i \in 1..Len(links) :
              /\ array[i].id = links[i].targetId
              /\ OwnFields(array[i]) = OwnFields(serialized(links[i].targetId))

\* C22: in every serialized domain, each of the four resolved arrays has exactly
\* one element per join row of the domain, in join-row order, and the element is
\* the serialization of that join row's target.
C22_ResolvedArraysFollowJoinRows ==
    \A d \in SerializedDomains :
        LET table(id) == toStorageTable(LoadTable(store, FindById(store.storageTables, id)[1]))
            view(id) == toViewModel(LoadView(store, FindById(store.viewModels, id)[1]))
            form(id) == toFormModel(LoadForm(store, FindById(store.formModels, id)[1]), TRUE)
            operation(id) ==
                toOperationModel(
                    LoadOperation(store, FindById(store.operationModels, id)[1]), TRUE)
        IN  /\ Resolves(d.storageTables, store.domainStorageTables, d.id, table)
            /\ Resolves(d.viewModels, store.domainViewModels, d.id, view)
            /\ Resolves(d.formModels, store.domainFormModels, d.id, form)
            /\ Resolves(d.operationModels, store.domainOperationModels, d.id, operation)

\* a domain created with the second table before the first is read back by the
\* domain list: its tables are the two targets, in the order of the join rows
C22_Witness ==
    \E r \in Reqs :
        /\ Delivered(r) /\ req[r].kind = "domain-models" /\ req[r].response.status = 200
        /\ Len(req[r].response.body) = 1
        /\ Len(req[r].response.body[1].storageTables) = 2
        /\ req[r].response.body[1].storageTables[1].id = "t2"
        /\ req[r].response.body[1].storageTables[2].id = "t1"
        /\ req[r].response.body[1].viewModels[1].id = "v2"

---------------------------------------------------------------------------
(* C23 *)

\* the calls a retry would repeat
SingleCalls == {"connect", "tables", "columns", "create", "reread"}

\* how often request r has issued a call
TimesIssued(r, op) == Cardinality({i \in 1..Len(req[r].calls) : req[r].calls[i].op = op})

\* the positions of the failed calls of request r
FailedCalls(r) ==
    {i \in 1..Len(req[r].calls) : req[r].calls[i].op \in SingleCalls /\ ~req[r].calls[i].ok}

\* C23: no retries: a request issues the connection attempt, the table query, the
\* column query, the store create and the re-read at most once each; after one of
\* them has failed it issues none of them again, and the response it ends with is
\* not a success.
C23_NoRetries ==
    \A r \in Writes :
        /\ \A op \in SingleCalls : TimesIssued(r, op) <= 1
        /\ \A i \in FailedCalls(r) :
              \A j \in (i + 1)..Len(req[r].calls) : req[r].calls[j].op \notin SingleCalls
        /\ (Delivered(r) /\ FailedCalls(r) # {}) => req[r].response.status \notin {200, 201}

\* an import whose column query failed has ended with a 500 after one attempt of
\* each step, and a create whose re-read failed likewise
C23_Witness ==
    /\ \E r \in Imports :
          /\ Delivered(r) /\ FailedAt(r, "columns")
          /\ TimesIssued(r, "connect") = 1 /\ TimesIssued(r, "tables") = 1
          /\ TimesIssued(r, "columns") = 1 /\ TimesIssued(r, "create") = 0
          /\ req[r].response.status = 500
    /\ \E r \in Creates :
          /\ Delivered(r) /\ FailedAt(r, "reread")
          /\ TimesIssued(r, "create") = 1 /\ TimesIssued(r, "reread") = 1
          /\ req[r].response.status = 500

---------------------------------------------------------------------------
(* C24 *)

\* C24: import step ordering: the column query is issued only after the table
\* query has returned at least one table; an import whose table query returned no
\* rows ends without issuing the column query.
C24_ColumnQueryOnlyForNonEmptyCatalog ==
    \A r \in Imports :
        (Did(r, "tables") /\ Issued(r, "columns")) => Len(req[r].tableRows) > 0

---------------------------------------------------------------------------
(* C25 *)

\* a delivered response is final: the request's record does not change again
ResponseIsFinal == \A r \in Reqs : Delivered(r) => req'[r] = req[r]

\* C25: every request that has been received eventually gets a response, given
\* that each external call eventually returns or fails, and it gets exactly one:
\* once delivered, the response is never replaced.
C25_EveryRequestIsAnsweredOnce ==
    /\ \A r \in Reqs : (req[r].pc # "idle") ~> Delivered(r)
    /\ [][ResponseIsFinal]_vars

\* an import and a dashboard read have both been answered
C25_Witness ==
    /\ \E r \in Imports : Delivered(r) /\ Did(r, "end")
    /\ \E r \in Reqs : req[r].kind = "dashboard" /\ Delivered(r)
    /\ \A r \in Reqs : req[r].response # NoResponse

---------------------------------------------------------------------------
(* C26 *)

\* the fixed-message 500 of the branch `if (!detail)`
NotFoundAfterCreate ==
    { TextResponse(500, "view model creation failed"),
      TextResponse(500, "form model creation failed"),
      TextResponse(500, "operation model creation failed"),
      TextResponse(500, "domain model creation failed") }

\* the store table a create request writes to
TableOf(r) ==
    CASE req[r].kind = "view" -> store.viewModels
      [] req[r].kind = "form" -> store.formModels
      [] req[r].kind = "operation" -> store.operationModels
      [] req[r].kind = "domain" -> store.domainModels

\* C26: the not-found-after-create branch is unreachable: under every
\* interleaving, the entity a create has written is in the store whenever it is
\* re-read, and no response is the fixed-message 500 of that branch.
C26_RereadAlwaysFindsTheCreated ==
    /\ \A r \in Creates : Did(r, "create") => FindById(TableOf(r), req[r].createdId) # <<>>
    /\ \A r \in Reqs : req[r].response \notin NotFoundAfterCreate
    /\ \A r \in Reqs : req[r].pending \notin NotFoundAfterCreate

\* two concurrent form creates have both been answered 201: each re-read found
\* the form its request had written
C26_Witness ==
    /\ \A r \in Reqs : r \in Creates /\ Delivered(r) /\ Did(r, "reread")
    /\ \E r1, r2 \in Reqs :
          /\ r1 # r2 /\ req[r1].kind = "form" /\ req[r2].kind = "form"
          /\ req[r1].response.status = 201 /\ req[r2].response.status = 201

---------------------------------------------------------------------------
(* The dashboard read with its five queries answered one by one.           *)
(* Promise.all issues the five findMany together, outside any transaction: *)
(* the store answers each at its own time, and creates of other requests   *)
(* may complete in between.  (DashboardRead of Spec is the case in which   *)
(* no write falls between the answers.)                                    *)

SnapshotLists ==
    IF DashboardReadsDomains THEN EntityLists ELSE EntityLists \ {"domainModels"}

FindList(list, s) ==
    CASE list = "storageModels" -> FindStorageModels(s)
      [] list = "viewModels" -> FindViews(s)
      [] list = "formModels" -> FindForms(s)
      [] list = "operationModels" -> FindOperations(s)
      [] list = "domainModels" -> FindDomains(s)

\* one of the findMany of Promise.all is answered from the store as it is now
DashboardQuery(r) ==
    /\ req[r].kind = "dashboard" /\ req[r].pc = "read"
    /\ \E list \in SnapshotLists \ DOMAIN req[r].data :
          Update(r, [data |-> req[r].data @@ [x \in {list} |-> FindList(list, store)]])
    /\ UNCHANGED <<serializerModule, store, nextId, connections, catalog>>

\* one of the findMany rejects: Promise.all rejects and the error leaves the handler
DashboardQueryFails(r) ==
    /\ req[r].kind = "dashboard" /\ req[r].pc = "read"
    /\ Return(r, Unhandled(StoreError), Called(r, <<Failed("findMany")>>))
    /\ UNCHANGED <<serializerModule, store, nextId, connections, catalog>>

\* all are answered: serializeDashboardData and NextResponse.json(payload)
DashboardRespond(r) ==
    /\ req[r].kind = "dashboard" /\ req[r].pc = "read"
    /\ DOMAIN req[r].data = SnapshotLists
    /\ Return(r, JsonResponse(200, serializeDashboardData(req[r].data)),
              Called(r, <<Ok("findMany"), Ok("serialize")>>))
    /\ UNCHANGED <<serializerModule, store, nextId, connections, catalog>>

\* The creates of the other requests, as the store sees them: each is the
\* prisma create of its route with the parsed data of a valid request.
ConcurrentViewCreate ==
    /\ nextId <= MaxWrites
    /\ \E p \in {x \in ViewPayloads : createViewSchemaIssues(x) = <<>>} :
          store' = [store EXCEPT !.viewModels =
                       Append(@, ViewRow(createViewSchemaParse(p), NewId(nextId), nextId))]
    /\ nextId' = nextId + 1
    /\ UNCHANGED <<serializerModule, connections, catalog, req, probe, ui>>

ConcurrentFormCreate ==
    /\ nextId <= MaxWrites
    /\ \E p \in {x \in FormPayloads : createFormSchemaIssues(x) = <<>>} :
          store' = [store EXCEPT !.formModels =
                       Append(@, FormRow(createFormSchemaParse(p), NewId(nextId), nextId))]
    /\ nextId' = nextId + 1
    /\ UNCHANGED <<serializerModule, connections, catalog, req, probe, ui>>

\* an operation for a form the client has seen created
ConcurrentOperationCreate ==
    /\ nextId <= MaxWrites
    /\ \E form \in Ids(store.formModels) :
          LET data == createOperationSchemaParse([name |-> "submit", formModelId |-> form])
          IN  store' = [store EXCEPT !.operationModels =
                           Append(@, OperationRow(data, NewId(nextId), nextId))]
    /\ nextId' = nextId + 1
    /\ UNCHANGED <<serializerModule, connections, catalog, req, probe, ui>>

\* a domain that links a view the client has seen created
ConcurrentDomainCreate ==
    \E view \in Ids(store.viewModels) :
        LET data == createDomainSchemaParse(
                        [name |-> "user", schema |-> [fields |-> DomainFieldsPayload],
                         viewModelIds |-> <<view>>])
            row == DomainRow(data, NewId(nextId), nextId)
        IN  /\ nextId <= MaxWrites
            /\ store' = [store EXCEPT
                  !.domainModels = Append(@, row),
                  !.domainViewModels = @ \o JoinRows(row.id, data.viewModelIds)]
            /\ nextId' = nextId + 1
            /\ UNCHANGED <<serializerModule, connections, catalog, req, probe, ui>>

SnapshotInit ==
    /\ serializerModule \in SerializerModules
    /\ store = SeedStore
    /\ nextId = 1
    /\ connections = <<>>
    /\ catalog = [tables |-> Unread, columns |-> Unread]
    /\ req = [r \in Reqs |->
                IF r = "r1"
                THEN [IdleRequest EXCEPT !.kind = "dashboard", !.pc = "read",
                                         !.data = [x \in {} |-> <<>>]]
                ELSE IdleRequest]
    /\ probe = NoProbe
    /\ ui = NoPage

SnapshotNext ==
    \/ \E r \in Reqs : DashboardQuery(r) \/ DashboardQueryFails(r) \/ DashboardRespond(r)
    \/ ConcurrentViewCreate
    \/ ConcurrentFormCreate
    \/ ConcurrentOperationCreate
    \/ ConcurrentDomainCreate

SnapshotSpec == SnapshotInit /\ [][SnapshotNext]_vars

---------------------------------------------------------------------------
(* C27 *)

\* the ids of the entries of a serialized list
DocIds(list) == {list[i].id : i \in 1..Len(list)}

\* the tables of a document: those of its storage models
DocTableIds(doc) == UNION {DocIds(m.tables) : m \in Range(doc.storageModels)}

\* the id of the entity a to-one back-reference names, if the entry has one
Referenced(entry, k) == IF Has(entry, k) THEN {entry[k].id} ELSE {}

\* C27: in every dashboard document, whatever creates complete while its queries
\* are answered, each entity referenced from within the document (a domain's
\* linked tables, views, forms and operations, a view's or form's table, an
\* operation's form) is also in the corresponding top-level list.
C27_SnapshotIsClosedUnderReferences ==
    \A r \in Reqs :
        (req[r].kind = "dashboard" /\ Delivered(r) /\ req[r].response.status = 200) =>
            LET doc == req[r].response.body
            IN  /\ \A v \in Range(doc.viewModels) :
                      Referenced(v, "storageTable") \subseteq DocTableIds(doc)
                /\ \A f \in Range(doc.formModels) :
                      Referenced(f, "storageTable") \subseteq DocTableIds(doc)
                /\ \A o \in Range(doc.operationModels) :
                      Referenced(o, "formModel") \subseteq DocIds(doc.formModels)
                /\ Has(doc, "domainModels") =>
                      \A d \in Range(doc.domainModels) :
                          /\ DocIds(d.storageTables) \subseteq DocTableIds(doc)
                          /\ DocIds(d.viewModels) \subseteq DocIds(doc.viewModels)
                          /\ DocIds(d.formModels) \subseteq DocIds(doc.formModels)
                          /\ DocIds(d.operationModels) \subseteq DocIds(doc.operationModels)

---------------------------------------------------------------------------
(* C28 *)

\* C28: an import whose input fails validation attempts no connection, and on
\* every path of an import that ends before a connection attempt succeeded the
\* handle is null, so the cleanup calls end() on nothing.
C28_NoConnectionBeforeValidInput ==
    \A r \in Imports :
        /\ InvalidInput(r) => ~Issued(r, "connect") /\ OwnConnections(r) = {}
        /\ ~Did(r, "connect") =>
              /\ req[r].connection = 0
              /\ req[r].pc # "finally"
              /\ ~Issued(r, "end")
              /\ \A c \in 1..Len(connections) : r \notin connections[c].endedBy

\* one import was refused for its input and another for a failed connection
\* attempt; both are answered and no connection was ever opened
C28_Witness ==
    \E r1, r2 \in Imports :
        /\ InvalidInput(r1) /\ Delivered(r1) /\ req[r1].response.status = 400
        /\ FailedAt(r2, "connect") /\ Delivered(r2) /\ req[r2].response.status = 500
        /\ connections = <<>>

---------------------------------------------------------------------------
(* C29 *)

\* the entries of a schema.tables list and a list of table records agree: as
\* many, the same names in the same order, and the same columns entry by entry
DescriptorAgrees(entries, tables) ==
    /\ Len(entries) = Len(tables)
    /\ \A i \in 1..Len(entries) :
          /\ entries[i].name = tables[i].name
          /\ entries[i].columns = tables[i].schema.columns

\* C29: after a successful import the schema.tables descriptor of the stored
\* StorageModel and its child StorageTable records agree (names, order, columns),
\* in the store and in the document the import answered with, whatever the
\* other requests write meanwhile.
C29_DescriptorMatchesChildTables ==
    \A r \in Imports :
        /\ Did(r, "create") =>
              DescriptorAgrees(ImportedModel(r).schema.tables, ImportedTables(r))
        /\ (Delivered(r) /\ req[r].response.status = 200) =>
              DescriptorAgrees(req[r].response.body.schema.tables,
                               req[r].response.body.tables)

\* a successful import of two tables, one with columns and one without, while the
\* other request has written to the store as well
C29_Witness ==
    \E r \in Imports :
        /\ Delivered(r) /\ req[r].response.status = 200
        /\ Len(ImportedTables(r)) = 2
        /\ ImportedTables(r)[1].name # ImportedTables(r)[2].name
        /\ \E i \in 1..2 : ImportedTables(r)[i].schema.columns # <<>>
        /\ \E other \in Reqs \ {r} : req[other].written # {}

---------------------------------------------------------------------------
(* The dashboard page (components/dashboard/dashboard-root.tsx).  One page *)
(* is open; its handlers run on the browser's event loop, so each runs     *)
(* without interruption from one await to the next.  A fetch is answered   *)
(* by the server at one moment and its response reaches the page at a      *)
(* later one; responses of different fetches may arrive in either order.   *)

\* the document GET /api/dashboard answers with for the store as it is
DashboardDocument(s) ==
    LET four == [storageModels |-> FindStorageModels(s),
                 viewModels |-> FindViews(s),
                 formModels |-> FindForms(s),
                 operationModels |-> FindOperations(s)]
    IN  serializeDashboardData(IF DashboardReadsDomains
                               THEN four @@ [domainModels |-> FindDomains(s)]
                               ELSE four)

\* refreshData up to its first await: setIsRefreshing(true) and the fetch is sent
refreshDataBegins(page, by) ==
    [page EXCEPT !.isRefreshing = TRUE,
                 !.fetches = Append(@, [by |-> by, state |-> "sent", ok |-> FALSE,
                                        payload |-> <<>>])]

\* the refresh button: disabled while isRefreshing
ClickRefresh ==
    /\ ~ui.isRefreshing
    /\ Len(ui.fetches) < MaxRefreshes
    /\ ui' = refreshDataBegins(ui, "button")
    /\ UNCHANGED <<serializerModule, store, nextId, connections, catalog, req, probe>>

\* handleCreateView up to its first await (the submit button is disabled while
\* isCreatingView): setIsCreatingView(true) and the POST is sent
handleCreateView ==
    /\ ~ui.isCreatingView
    /\ ui' = [ui EXCEPT !.isCreatingView = TRUE, !.posts = @ \cup {"view"}]
    /\ UNCHANGED <<serializerModule, store, nextId, connections, catalog, req, probe>>

\* the POST is answered: not ok, and the handler toasts and clears its flag; or
\* the view is created, and the handler goes on to `await refreshData()`
ViewPostAnswered ==
    /\ "view" \in ui.posts
    /\ \/ /\ ui' = [ui EXCEPT !.isCreatingView = FALSE, !.posts = @ \ {"view"}]
          /\ UNCHANGED <<store, nextId>>
       \/ /\ nextId <= MaxWrites /\ Len(ui.fetches) < MaxRefreshes
          /\ \E p \in {x \in ViewPayloads : createViewSchemaIssues(x) = <<>>} :
                store' = [store EXCEPT !.viewModels =
                            Append(@, ViewRow(createViewSchemaParse(p), NewId(nextId), nextId))]
          /\ nextId' = nextId + 1
          /\ ui' = refreshDataBegins([ui EXCEPT !.posts = @ \ {"view"}], "view")
    /\ UNCHANGED <<serializerModule, connections, catalog, req, probe>>

\* handleCreateForm up to its first await
handleCreateForm ==
    /\ ~ui.isCreatingForm
    /\ ui' = [ui EXCEPT !.isCreatingForm = TRUE, !.posts = @ \cup {"form"}]
    /\ UNCHANGED <<serializerModule, store, nextId, connections, catalog, req, probe>>

FormPostAnswered ==
    /\ "form" \in ui.posts
    /\ \/ /\ ui' = [ui EXCEPT !.isCreatingForm = FALSE, !.posts = @ \ {"form"}]
          /\ UNCHANGED <<store, nextId>>
       \/ /\ nextId <= MaxWrites /\ Len(ui.fetches) < MaxRefreshes
          /\ \E p \in {x \in FormPayloads : createFormSchemaIssues(x) = <<>>} :
                store' = [store EXCEPT !.formModels =
                            Append(@, FormRow(createFormSchemaParse(p), NewId(nextId), nextId))]
          /\ nextId' = nextId + 1
          /\ ui' = refreshDataBegins([ui EXCEPT !.posts = @ \ {"form"}], "form")
    /\ UNCHANGED <<serializerModule, connections, catalog, req, probe>>

\* the server answers one fetch of /api/dashboard from the store as it is now,
\* or with an error status
DashboardAnswers(f) ==
    /\ ui.fetches[f].state = "sent"
    /\ \/ ui' = [ui EXCEPT !.fetches[f] = [@ EXCEPT !.state = "answered", !.ok = TRUE,
                                                    !.payload = DashboardDocument(store)]]
       \/ ui' = [ui EXCEPT !.fetches[f] = [@ EXCEPT !.state = "answered"]]
    /\ UNCHANGED <<serializerModule, store, nextId, connections, catalog, req, probe>>

\* the response of one fetch reaches the page: refreshData sets the five lists
\* (or toasts), its finally clears isRefreshing, and the submit handler that
\* awaited it clears its own flag
refreshDataSettles(f) ==
    /\ ui.fetches[f].state = "answered"
    /\ ui' = [ui EXCEPT
          !.lists = IF ui.fetches[f].ok THEN ui.fetches[f].payload ELSE @,
          !.isRefreshing = FALSE,
          !.isCreatingView = IF ui.fetches[f].by = "view" THEN FALSE ELSE @,
          !.isCreatingForm = IF ui.fetches[f].by = "form" THEN FALSE ELSE @,
          !.fetches[f] = [@ EXCEPT !.state = "done"]]
    /\ UNCHANGED <<serializerModule, store, nextId, connections, catalog, req, probe>>

RefreshInit ==
    /\ serializerModule \in SerializerModules
    /\ store = SeedStore
    /\ nextId = 1
    /\ connections = <<>>
    /\ catalog = [tables |-> Unread, columns |-> Unread]
    /\ req = [r \in Reqs |-> IdleRequest]
    /\ probe = NoProbe
    /\ ui = PageOf(DashboardDocument(SeedStore))

RefreshNext ==
    \/ ClickRefresh
    \/ handleCreateView
    \/ ViewPostAnswered
    \/ handleCreateForm
    \/ FormPostAnswered
    \/ \E f \in 1..Len(ui.fetches) : DashboardAnswers(f)
    \/ \E f \in 1..Len(ui.fetches) : refreshDataSettles(f)

RefreshSpec == RefreshInit /\ [][RefreshNext]_vars

---------------------------------------------------------------------------
(* C30 *)

\* the refreshes whose fetch has been sent and whose response has not arrived
InFlight == {f \in 1..Len(ui.fetches) : ui.fetches[f].state # "done"}

\* isRefreshing is true exactly while a refresh is in flight
FlagFollowsFetches == ui.isRefreshing <=> InFlight # {}

\* once every refresh has completed, the lists shown are those the refresh
\* started last received
LastStartedIsShown ==
    (InFlight = {} /\ ui.fetches # <<>> /\ ui.fetches[Len(ui.fetches)].ok) =>
        ui.lists = ui.fetches[Len(ui.fetches)].payload

\* C30: for every interleaving of refreshes started by the refresh button and by
\* the submit handlers of different tabs, isRefreshing is true whenever a refresh
\* fetch is in flight and false otherwise, and when overlapping refreshes have
\* completed the displayed lists are those of the refresh started last.
C30_RefreshFlagAndListsFollowLatest ==
    FlagFollowsFetches /\ LastStartedIsShown

====
